---- MODULE Spec2Model ----
(***************************************************************************)
(* A model of the replicate-group aggregation and peak-extraction scripts  *)
(* of the spatial-dynamics figure repository (fig5).                       *)
(*                                                                         *)
(* Every script is a sequential batch program.  Each script (or pure       *)
(* function of a script) has its own specification over the variables it   *)
(* uses; the variables of the other scripts keep their initial values.     *)
(*                                                                         *)
(*   SpecParse  extract_dipbst_from_folder_name on one name                *)
(*   SpecAgg    calculate_averages_for_group on one group of folders       *)
(*   SpecPeak   process_simulation_dir on one simulation directory         *)
(*   SpecPeakMain  main of 4_process_peak_ifn.py on one file system        *)
(*   SpecMain   main of 2_process_csv_averages.py on one directory         *)
(*   SpecMainFair   SpecMain, every step that can be taken is taken        *)
(*   SpecPlot   plot_ifn_levels_enhanced on one directory of summaries     *)
(*   SpecPipeline   SpecMain and then SpecPlot on the summaries written    *)
(*   SpecScatter   plot_ifn_max_scatter on one directory of summaries      *)
(*   SpecSummary   two runs of main of process_summary_from_..._2.py on    *)
(*              one input directory                                        *)
(*   SpecOptimum   find_optimum of 5_analyze_peak_ifn.py on one fitted     *)
(*              model                                                      *)
(*   SpecAnalyze   main of 5_analyze_peak_ifn.py on one table of peaks     *)
(*   SpecPlaque    5_plot_final.py on one table                            *)
(*   SpecRenderers 3_1 and then 3_2 run in one directory of summaries      *)
(*   SpecDynamics  process_data of 6_plot_avg_ifn_dynamics.py on the runs  *)
(*              of one burst size                                          *)
(*   SpecBurst     fig5/1_bst_IFN_time_0503.py on one base directory       *)
(*   SpecCompare   fig2/create_comparison_plot.py on one pair of files     *)
(*   SpecDualAxis  create_ifn1_to_ifn10_dualaxis_linear of                 *)
(*              fig6/create_ifn10_only_plots.py on one directory           *)
(*   SpecFirst     main of process_csv_averages_first_script.py on one     *)
(*              group                                                      *)
(*   SpecGroup     the two group_folders_by_dipbst on one folder list      *)
(***************************************************************************)
EXTENDS Integers, Sequences, FiniteSets, TLC

VARIABLES
    pc,            \* position of the running script
    folder_name,   \* SpecParse: the name handed to the parser
    dipbst,        \* SpecParse: what the parser returned
    group_folders,      \* SpecAgg: the group's folders, as supplied: for each
                        \*   the state of its simulation_output.csv
    averaged_df,        \* SpecAgg: what calculate_averages_for_group returned
    folders_reordered,  \* SpecAgg: the same folders supplied in another order
    averaged_reordered, \* SpecAgg: what the function returned for that order
    sim_dir,            \* SpecPeak: the simulation directory: its base name,
                        \*   its seed.txt and its simulation_output.csv
    peak_data,          \* SpecPeak: what process_simulation_dir returned
    printed_out,        \* the messages printed so far (stdout and stderr), in order
    exit_status,        \* None while the script runs, then its exit status
    fs,                     \* SpecPeakMain: the replicate directories on disk,
                            \*   path -> the simulation directories globbed in it
    nested_replicate_dirs,  \* SpecPeakMain: main's local of that name
    replicate_dirs,         \* SpecPeakMain: main's local of that name
    rep_i,                  \* SpecPeakMain: position of the loop of line 105
    results,                \* SpecPeakMain: main's local of that name
    peak_csv,               \* SpecPeakMain: ifn_peak_vs_dipburst_baseline.csv
    listing,      \* SpecMain: the entries of the current directory,
                  \*   name -> is it a directory, its simulation_output.csv
    folders,      \* SpecMain: main's local of that name
    groups,       \* SpecMain: main's local of that name, DIPBst value -> folders
    todo,         \* SpecMain: the DIPBst values the loop of line 130 has yet to visit
    summaries,    \* SpecMain: the files summary_DIPBst<value>.csv written so far
    to_csv_calls, \* SpecMain: the DIPBst values of the to_csv calls of line 143,
                  \*   in the order of the calls
    to_csv_paths, \* SpecMain: the file names of those calls, in the same order
    cwd,             \* SpecPlot: the files of the current directory, name -> file
    summary_files,   \* SpecPlot: the local of that name
    all_data,        \* SpecPlot: the local of that name
    max_ifn_data,    \* SpecPlot: the local of that name
    max_ifn_dipbst,  \* SpecPlot: the local of that name
    plot_lines,      \* SpecPlot: the lines drawn on the axes
    saved_png,       \* SpecPlot: ifn_levels_comparison_enhanced.png was written
    input_dir,     \* SpecSummary: the entries of input_dir, name -> is it a
                   \*   directory, its simulation_output.csv
    all_folders,   \* SpecSummary: the local of that name, in os.listdir order
    grouped,       \* SpecSummary: the local of that name
    values_todo,   \* SpecSummary: what the loop of line 40 has yet to visit
    output_dir,    \* SpecSummary: the files of output_dir, DIPBst value -> table
    run_no,        \* SpecSummary: the first or the second run of the script
    first_output,  \* SpecSummary: output_dir as the first run left it
    summary_dir,      \* SpecScatter: the files of the current directory
    dipbst_values,    \* SpecScatter: the local of that name
    max_ifn_values,   \* SpecScatter: the local of that name
    max_ifn_overall,  \* SpecScatter: the local of that name
    points,           \* SpecScatter: the points drawn on the axes
    scatter_saved,    \* SpecScatter: ifn_max_vs_dipbst_scatter.png was written
    X,                \* SpecOptimum: main's local of that name, the inputs
    gam,              \* SpecOptimum: main's local of that name, the fitted model
    grid,             \* SpecOptimum: find_optimum's local of that name
    preds,            \* SpecOptimum: find_optimum's local of that name
    b_star_observed,  \* SpecOptimum: main's local of that name
    baseline_csv,      \* SpecAnalyze: ifn_peak_vs_dipburst_baseline.csv
    df_observed,       \* SpecAnalyze: main's local df, the observed dataset
    y_observed,        \* SpecAnalyze: main's local y
    bootstrap_sample,  \* SpecAnalyze: main's local of that name
    boot_i,            \* SpecAnalyze: the length of b_star_bootstrapped
    df_perm,           \* SpecAnalyze: main's local of that name
    perm_i,            \* SpecAnalyze: the length of perm_r2 and of perm_snr
    plot_data,          \* SpecAnalyze: the data of the scatter plot of the figure
    tagged_folders,  \* SpecGroup: the folder list get_all_folders returned
    groups_all,  \* SpecGroup: what group_folders_by_dipbst of 2_process_csv_averages.py returned
    groups_selected,  \* SpecGroup: what group_folders_by_dipbst of process_selected_burstSizeD.py returned
    group_csv_files,  \* SpecFirst: the CSV files of the folders of one group
    first_summary,  \* SpecFirst: summary_df of that group
    first_max_ifn,  \* SpecFirst: the value printed as 'Max IFN' for it
    ifn_dir,  \* SpecDualAxis: IFN level -> the state of its simulation_output.csv
    baseline_readable,  \* SpecDualAxis: the baseline file can be read
    ifn_files,  \* SpecDualAxis: the local of that name, as IFN levels
    curves,  \* SpecDualAxis: the curves drawn on the two axes
    dualaxis_saved,  \* SpecDualAxis: the figure was written
    sim_output,  \* SpecCompare: simulation_output.csv
    infection_counts,  \* SpecCompare: infection_counts_by_time.csv
    data_simulation,  \* SpecCompare: the global of that name
    data_experimental,  \* SpecCompare: the global of that name
    target_i,  \* SpecCompare: position of the loop of line 81
    saved_plots,  \* SpecCompare: the files written by savefig
    burst_dir,  \* SpecBurst: the subfolders of base_dir, name -> simulation_output.csv
    burst_folders,  \* SpecBurst: the global of that name
    max_ifn_lookup,  \* SpecBurst: the global of that name
    max_ifn_burst_value,  \* SpecBurst: the global of that name
    ifn_results,  \* SpecBurst: the global of that name
    burst_csv,  \* SpecBurst: maxIFN_burst_<folder_name>.csv
    run_tables,  \* SpecDynamics: all_dfs, the tables of the runs of one burst size
    time_series_avg,  \* SpecDynamics: the local of that name, as rows (Time, value)
    avg_max_ifn,  \* SpecDynamics: avg_max_ifn of the burst size
    scatter_started,  \* SpecRenderers: 3_2 has been started after 3_1 has ended
    plaque_df,  \* SpecPlaque: the table of simulation_output.csv
    plaque_percentage_values_at_markers,  \* SpecPlaque: the values of line 35
    plaque_plot,  \* SpecPlaque: the sequences drawn by lines 38 and 41
    plaque_saved  \* SpecPlaque: the figure has been written

vars == <<pc, folder_name, dipbst,
          group_folders, averaged_df, folders_reordered, averaged_reordered,
          sim_dir, peak_data, printed_out, exit_status,
          fs, nested_replicate_dirs, replicate_dirs, rep_i, results, peak_csv,
          listing, folders, groups, todo, summaries, to_csv_calls, to_csv_paths,
          cwd, summary_files, all_data, max_ifn_data, max_ifn_dipbst,
          plot_lines, saved_png,
          input_dir, all_folders, grouped, values_todo, output_dir, run_no,
          first_output,
          summary_dir, dipbst_values, max_ifn_values, max_ifn_overall, points,
          scatter_saved,
          X, gam, grid, preds, b_star_observed,
          baseline_csv, df_observed, y_observed, bootstrap_sample, boot_i, df_perm,
          perm_i, plot_data,
          tagged_folders, groups_all, groups_selected,
          group_csv_files, first_summary, first_max_ifn,
          ifn_dir, baseline_readable, ifn_files, curves, dualaxis_saved,
          sim_output, infection_counts, data_simulation, data_experimental, target_i, saved_plots,
          burst_dir, burst_folders, max_ifn_lookup, max_ifn_burst_value, ifn_results, burst_csv,
          run_tables, time_series_avg, avg_max_ifn,
          scatter_started,
          plaque_df, plaque_percentage_values_at_markers, plaque_plot, plaque_saved>>

plaqueVars == <<plaque_df, plaque_percentage_values_at_markers, plaque_plot, plaque_saved>>

rendererVars == <<scatter_started>>

dynamicsVars == <<run_tables, time_series_avg, avg_max_ifn>>

burstVars == <<burst_dir, burst_folders, max_ifn_lookup, max_ifn_burst_value, ifn_results, burst_csv>>

compareVars == <<sim_output, infection_counts, data_simulation, data_experimental, target_i, saved_plots>>

dualAxisVars == <<ifn_dir, baseline_readable, ifn_files, curves, dualaxis_saved>>

firstVars == <<group_csv_files, first_summary, first_max_ifn>>

groupVars == <<tagged_folders, groups_all, groups_selected>>

analyzeVars == <<baseline_csv, df_observed, y_observed, bootstrap_sample, boot_i,
                 df_perm, perm_i, plot_data>>

optimumVars == <<X, gam, grid, preds, b_star_observed>>

scatterVars == <<summary_dir, dipbst_values, max_ifn_values, max_ifn_overall, points,
                 scatter_saved>>

summaryVars == <<input_dir, all_folders, grouped, values_todo, output_dir, run_no,
                 first_output>>

plotVars == <<cwd, summary_files, all_data, max_ifn_data, max_ifn_dipbst,
              plot_lines, saved_png>>

mainVars == <<listing, folders, groups, todo, summaries, to_csv_calls, to_csv_paths>>

peakMainVars == <<fs, nested_replicate_dirs, replicate_dirs, rep_i, results, peak_csv>>

peakVars == <<sim_dir, peak_data>>

outVars == <<printed_out, exit_status>>

parseVars == <<folder_name, dipbst>>

aggVars == <<group_folders, averaged_df, folders_reordered, averaged_reordered>>

(***************************************************************************)
(* Names.  A directory or file name is a sequence of one-character         *)
(* strings.                                                                *)
(***************************************************************************)

\* The literal tag of the regular expression r'DIPBst(\d+)'.
Tag == <<"D", "I", "P", "B", "s", "t">>

DigitChars == <<"0", "1", "2", "3", "4", "5", "6", "7", "8", "9">>

\* \d of the regular expression.
IsDigit(c) == \E k \in 1..Len(DigitChars) : DigitChars[k] = c

DigitValue(c) == (CHOOSE k \in 1..Len(DigitChars) : DigitChars[k] = c) - 1

\* Python's None, kept apart from every value int() can return (all >= 0).
None == -1

\* The literal 'DIPBst' stands at position i of name.
TagAt(name, i) == i + Len(Tag) - 1 <= Len(name) /\ SubSeq(name, i, i + Len(Tag) - 1) = Tag

\* The pattern DIPBst(\d+) matches at position i: the tag and at least one digit.
MatchAt(name, i) ==
    /\ TagAt(name, i)
    /\ i + Len(Tag) <= Len(name)
    /\ IsDigit(name[i + Len(Tag)])

\* A wrong pattern DIPBst(\d): one digit only.
DigitRunEndOneDigit(name, from) == from

\* \d+ is greedy: the last index of the digit run that starts at index from.
DigitRunEnd(name, from) ==
    CHOOSE j \in from..Len(name) :
        /\ \A k \in from..j : IsDigit(name[k])
        /\ (j = Len(name) \/ ~IsDigit(name[j + 1]))

\* re.search scans left to right and reports the leftmost match; the result is
\* the text of group 1, or <<>> when there is no match (group 1 is never empty
\* in a match).
re_search(name) ==
    IF \E i \in 1..Len(name) : MatchAt(name, i)
    THEN LET i == CHOOSE i \in 1..Len(name) :
                      MatchAt(name, i) /\ \A h \in 1..(i - 1) : ~MatchAt(name, h)
         IN  SubSeq(name, i + Len(Tag), DigitRunEnd(name, i + Len(Tag)))
    ELSE <<>>

\* int() of a string of decimal digits.
RECURSIVE int(_)
int(digits) ==
    IF digits = <<>> THEN 0
    ELSE 10 * int(SubSeq(digits, 1, Len(digits) - 1)) + DigitValue(digits[Len(digits)])

extract_dipbst_from_folder_name(name) ==
    LET group1 == re_search(name)
    IN  IF group1 # <<>> THEN int(group1) ELSE None

(***************************************************************************)
(* Inputs of SpecParse: names put together from a prefix, a form of the    *)
(* tag, a digit string and a suffix.                                       *)
(***************************************************************************)
MaxDigits == 2

NamePrefixes ==
    { <<>>,
      <<"1", "_">>,
      <<"D", "I", "P">>,
      <<"D", "I", "P", "B", "s", "t", "_">>,
      <<"D", "I", "P", "B", "s", "t", "5", "_">> }

TagForms ==
    { Tag,
      <<>>,
      <<"D", "I", "P", "B", "s">>,
      <<"d", "i", "p", "b", "s", "t">> }

NameDigits == {"0", "1", "7"}

DigitStrings == UNION { [1..n -> NameDigits] : n \in 0..MaxDigits }

NameSuffixes ==
    { <<>>,
      <<"_", "n", "o", "J">>,
      <<".", "c", "s", "v">> }

Names ==
    { p \o t \o d \o s : p \in NamePrefixes, t \in TagForms,
                         d \in DigitStrings, s \in NameSuffixes }

(***************************************************************************)
(* Tables.  A cell of a DataFrame is a number, a text, a boolean or NaN;   *)
(* numbers are exact fractions n/d in lowest terms (the values read from a *)
(* CSV here are integers, d = 1; means are fractions).  A DataFrame is a   *)
(* function from its column names to columns of one length; the order of   *)
(* the columns is not modelled.                                             *)
(***************************************************************************)
Num(n) == [k |-> "num", n |-> n, d |-> 1, s |-> ""]

Text(s) == [k |-> "txt", n |-> 0, d |-> 1, s |-> s]

Bool(b) == [k |-> "bool", n |-> IF b THEN 1 ELSE 0, d |-> 1, s |-> ""]

NaN == [k |-> "nan", n |-> 0, d |-> 1, s |-> ""]

RECURSIVE Gcd(_, _)
Gcd(a, b) == IF b = 0 THEN a ELSE Gcd(b, a % b)

\* The number n/d (n >= 0, d > 0) in lowest terms.
Frac(n, d) == [k |-> "num", n |-> n \div Gcd(n, d), d |-> d \div Gcd(n, d), s |-> ""]

TIME_COL == "Time"

IFN_COL == "Global IFN Concentration Per Cell"

\* A further column of the table: a run parameter repeated on every row.
PARAM_COL == "Param"

\* None where a DataFrame is expected; no DataFrame read from a CSV file has
\* zero columns.
NoFrame == <<>>

Rows(df) == IF DOMAIN df = {} THEN 0 ELSE Len(df[CHOOSE c \in DOMAIN df : TRUE])

\* The state of <folder>/simulation_output.csv.
MissingFile == [state |-> "missing", df |-> NoFrame]

UnreadableFile == [state |-> "unreadable", df |-> NoFrame]

ReadableFile(df) == [state |-> "ok", df |-> df]

(***************************************************************************)
(* calculate_averages_for_group                                            *)
(***************************************************************************)

\* A wrong loading: the loop stops at the first file that is missing or
\* cannot be read.
RECURSIVE LoadAllUntilBad(_)
LoadAllUntilBad(files) ==
    IF files = <<>> \/ Head(files).state # "ok" THEN <<>>
    ELSE <<Head(files).df>> \o LoadAllUntilBad(Tail(files))

\* Lines 63-72: the DataFrames of the folders whose file exists and can be
\* read (process_csv_file returns None on any exception), in folder order.
RECURSIVE LoadAll(_)
LoadAll(files) ==
    IF files = <<>> THEN <<>>
    ELSE (IF Head(files).state = "ok" THEN <<Head(files).df>> ELSE <<>>)
             \o LoadAll(Tail(files))

\* The array dtype is bool exactly when every cell is a boolean.
IsBoolColumn(col) == \A i \in 1..Len(col) : col[i].k = "bool"

\* pd.to_numeric(series, errors='coerce').values: numbers stay, what cannot be
\* parsed becomes NaN, an all-boolean series stays boolean.
to_numeric(col) ==
    IF IsBoolColumn(col) THEN col
    ELSE [i \in 1..Len(col) |->
             IF col[i].k = "num" THEN col[i]
             ELSE IF col[i].k = "bool" THEN Num(col[i].n)
             ELSE NaN]

\* np.issubdtype(np.array(vals).dtype, np.number): bool is not a number dtype.
IsNumberDtype(vals) == ~IsBoolColumn(vals)

\* Line 96-98: the converted column of every DataFrame that has it.
RECURSIVE ColumnValues(_, _)
ColumnValues(dfs, column) ==
    IF dfs = <<>> THEN <<>>
    ELSE (IF column \in DOMAIN Head(dfs) THEN <<to_numeric(Head(dfs)[column])>> ELSE <<>>)
             \o ColumnValues(Tail(dfs), column)

\* np.column_stack raises ValueError when the arrays differ in length.
ColumnStackRaises(column_values) ==
    \E a \in 1..Len(column_values) : \E b \in 1..Len(column_values) :
        Len(column_values[a]) # Len(column_values[b])

RECURSIVE SumRow(_, _)
SumRow(column_values, r) ==
    IF column_values = <<>> THEN 0
    ELSE (IF Head(column_values)[r].k = "nan" THEN 0 ELSE Head(column_values)[r].n)
             + SumRow(Tail(column_values), r)

RECURSIVE CountRow(_, _)
CountRow(column_values, r) ==
    IF column_values = <<>> THEN 0
    ELSE (IF Head(column_values)[r].k = "nan" THEN 0 ELSE 1)
             + CountRow(Tail(column_values), r)

\* A wrong reduction: the row sums, not divided by the number of values.
nansum(column_values) ==
    [r \in 1..Len(column_values[1]) |->
        IF CountRow(column_values, r) = 0 THEN NaN
        ELSE Frac(SumRow(column_values, r), 1)]

\* A wrong reduction: the first member's values.
first_values(column_values) == column_values[1]

\* np.nanmean(np.column_stack(column_values), axis=1): per row, the mean of the
\* values that are not NaN (booleans count as 1 and 0); NaN when all are NaN.
nanmean(column_values) ==
    [r \in 1..Len(column_values[1]) |->
        IF CountRow(column_values, r) = 0 THEN NaN
        ELSE Frac(SumRow(column_values, r), CountRow(column_values, r))]

\* Lines 92-108, a column other than Time.
AveragedMeasurement(all_dataframes, column) ==
    LET first_df == all_dataframes[1]
        column_values == ColumnValues(all_dataframes, column)
    IN  IF \E m \in 1..Len(column_values) : IsNumberDtype(column_values[m])
        THEN (IF ColumnStackRaises(column_values)
              THEN first_df[column]          \* except: first file's value
              ELSE nanmean(column_values))
        ELSE first_df[column]

\* A wrong Time column: the last member's.
AveragedColumnLastTime(all_dataframes, column) ==
    IF column = TIME_COL THEN all_dataframes[Len(all_dataframes)][column]
    ELSE AveragedMeasurement(all_dataframes, column)

\* Lines 87-108, one column of the summary.
AveragedColumn(all_dataframes, column) ==
    IF column = TIME_COL THEN all_dataframes[1][column]
    ELSE AveragedMeasurement(all_dataframes, column)

calculate_averages_for_group(files) ==
    LET all_dataframes == LoadAll(files)
    IN  IF all_dataframes = <<>> THEN NoFrame
        ELSE [column \in DOMAIN all_dataframes[1] |->
                  AveragedColumn(all_dataframes, column)]

(***************************************************************************)
(* Inputs of SpecAgg.                                                      *)
(***************************************************************************)
MaxMembers == 2

TimeGrids == { <<0>>, <<0, 1>>, <<0, 2>> }

IFNValues == {1, 3}

ParamValues == { Text("a"), Bool(TRUE), Bool(FALSE) }

NumColumn(vals) == [i \in 1..Len(vals) |-> Num(vals[i])]

\* The tables with Time and IFN on the grid g.
TablesOfGrid(g) ==
    { [c \in {TIME_COL, IFN_COL} |->
          IF c = TIME_COL THEN NumColumn(g) ELSE NumColumn(v)] :
      v \in [1..Len(g) -> IFNValues] }

WithParam(df, p) ==
    [c \in DOMAIN df \cup {PARAM_COL} |->
        IF c = PARAM_COL THEN [i \in 1..Rows(df) |-> p] ELSE df[c]]

AggTables ==
    LET plain == UNION { TablesOfGrid(g) : g \in TimeGrids }
    IN  plain \cup { WithParam(df, p) : df \in plain, p \in ParamValues }

AggFiles == {MissingFile, UnreadableFile} \cup { ReadableFile(df) : df \in AggTables }

\* The example of the specification: three records on the grid [0,1,2].
ExampleTable(v) ==
    [c \in {TIME_COL, IFN_COL} |-> IF c = TIME_COL THEN NumColumn(<<0, 1, 2>>) ELSE NumColumn(v)]

ExampleGroup ==
    << ReadableFile(ExampleTable(<<1, 2, 3>>)),
       ReadableFile(ExampleTable(<<3, 2, 1>>)),
       ReadableFile(ExampleTable(<<2, 2, 2>>)) >>

IdleAgg ==
    /\ group_folders = <<>>
    /\ averaged_df = NoFrame
    /\ folders_reordered = <<>>
    /\ averaged_reordered = NoFrame

(***************************************************************************)
(* process_simulation_dir (4_process_peak_ifn.py)                          *)
(***************************************************************************)

\* The function returned None.
NoData == [none |-> TRUE]

\* A printed line: its text, and the file or folder name and the group it is
\* about (<<>> and None when it names none).
Msg(text, name, group) == [text |-> text, name |-> name, group |-> group]

\* seed.txt: absent or not an integer (ok = FALSE), or an integer.
NoSeedFile == [ok |-> FALSE, value |-> 0]

SeedFile(v) == [ok |-> TRUE, value |-> v]

\* The value seed keeps when seed.txt cannot be read (line 40).
DefaultSeed == -1

\* df.empty: no rows or no columns.
IsEmptyFrame(df) == DOMAIN df = {} \/ Rows(df) = 0

\* Series.idxmax raises on a column that is not numeric, and finds no row when
\* every value is NaN (the lookup of that label then raises).
IdxmaxRaises(column) ==
    \/ \E i \in 1..Len(column) : column[i].k \notin {"num", "nan"}
    \/ \A i \in 1..Len(column) : column[i].k = "nan"

\* a <= b for number cells.
CellLeq(a, b) == a.n * b.d <= b.n * a.d

IsMaxRow(column, r) ==
    /\ column[r].k = "num"
    /\ \A q \in 1..Len(column) : column[q].k = "num" => CellLeq(column[q], column[r])

\* A wrong argmax: the last row that holds the maximum.
idxmax_last(column) ==
    CHOOSE r \in 1..Len(column) :
        IsMaxRow(column, r) /\ \A q \in (r + 1)..Len(column) : ~IsMaxRow(column, q)

\* Series.idxmax(): the first row that holds the maximum, NaN skipped.
idxmax(column) ==
    CHOOSE r \in 1..Len(column) :
        IsMaxRow(column, r) /\ \A q \in 1..(r - 1) : ~IsMaxRow(column, q)

\* Lines 29-81.  The result is the returned dict (or NoData) and the messages
\* printed on the way.
process_simulation_dir(sim) ==
    LET group1 == re_search(sim.name)
        seed == IF sim.seed.ok THEN sim.seed.value ELSE DefaultSeed
        seed_warning ==
            IF sim.seed.ok THEN <<>>
            ELSE <<Msg("Warning: Could not read seed", sim.name, None)>>
        df == sim.data.df
    IN  IF group1 = <<>> THEN [data |-> NoData, printed |-> <<>>]
        ELSE IF sim.data.state = "missing"
        THEN [data |-> NoData,
              printed |-> seed_warning
                              \o <<Msg("Warning: Data file not found", sim.name, None)>>]
        ELSE IF sim.data.state = "unreadable"
        THEN [data |-> NoData,
              printed |-> seed_warning \o <<Msg("Error processing", sim.name, None)>>]
        ELSE IF IsEmptyFrame(df)
        THEN [data |-> NoData,
              printed |-> seed_warning
                              \o <<Msg("Warning: Data file is empty", sim.name, None)>>]
        ELSE IF TIME_COL \notin DOMAIN df \/ IFN_COL \notin DOMAIN df
        THEN [data |-> NoData,
              printed |-> seed_warning
                              \o <<Msg("Warning: column not found", sim.name, None)>>]
        ELSE IF IdxmaxRaises(df[IFN_COL])
        THEN [data |-> NoData,
              printed |-> seed_warning \o <<Msg("Error processing", sim.name, None)>>]
        ELSE LET peak_idx == idxmax(df[IFN_COL])
             IN  [data |-> [burst_size_DIP |-> int(group1),
                            seed |-> seed,
                            peak_IFN |-> df[IFN_COL][peak_idx],
                            t_peak_IFN |-> df[TIME_COL][peak_idx],
                            scenario |-> "baseline"],
                  printed |-> seed_warning]

(***************************************************************************)
(* Inputs of SpecPeak.                                                     *)
(***************************************************************************)
MaxPeakRows == 3

PeakCells == { NaN, Num(1), Num(3), Num(5) }

\* The time grid 0, 1, 2, ... of n rows.
TimeGrid(n) == [i \in 1..n |-> Num(i - 1)]

PeakTables ==
    { [c \in {TIME_COL, IFN_COL} |-> IF c = TIME_COL THEN TimeGrid(Len(v)) ELSE v] :
      v \in UNION { [1..n -> PeakCells] : n \in 0..MaxPeakRows } }

\* Tables that lack an expected column, and one whose IFN column is text.
OddTables ==
    { [c \in {TIME_COL} |-> TimeGrid(2)],
      [c \in {IFN_COL} |-> <<Num(1), Num(3)>>],
      [c \in {TIME_COL, IFN_COL} |->
          IF c = TIME_COL THEN TimeGrid(2) ELSE <<Text("a"), Text("a")>>] }

PeakFiles ==
    {MissingFile, UnreadableFile} \cup { ReadableFile(df) : df \in PeakTables \cup OddTables }

SimDirNames ==
    { <<"1", "_">> \o Tag \o <<"1", "0", "0">>,
      <<"2", "_">> \o Tag \o <<"5", "0">> \o <<"_", "n", "o", "J">>,
      <<"3", "_">> \o Tag \o <<"_", "x">> }

SimDirs ==
    { [name |-> n, seed |-> sd, data |-> f] :
      n \in SimDirNames, sd \in {NoSeedFile, SeedFile(42)}, f \in PeakFiles }

IdlePeak ==
    /\ sim_dir = [name |-> <<>>, seed |-> NoSeedFile, data |-> MissingFile]
    /\ peak_data = NoData

IdleParse ==
    /\ folder_name = <<>>
    /\ dipbst = None

\* Nothing printed yet, the script is running.
InitOut ==
    /\ printed_out = <<>>
    /\ exit_status = None

(***************************************************************************)
(* Sorting names: sorted() on strings compares character codes.            *)
(***************************************************************************)
\* The characters of the names used here, in the order of their codes.
Ascii ==
    << ".", "/", "0", "1", "2", "3", "4", "5", "6", "7", "8", "9",
       "B", "D", "I", "J", "P", "_",
       "a", "b", "c", "d", "i", "m", "n", "o", "p", "r", "s", "t", "u", "v", "x", "y" >>

Ord(c) == CHOOSE k \in 1..Len(Ascii) : Ascii[k] = c

\* a < b for strings.
LexLess(a, b) ==
    \E i \in 1..(Len(a) + 1) :
        /\ i <= Len(b)
        /\ \A h \in 1..(i - 1) : a[h] = b[h]
        /\ (i = Len(a) + 1 \/ Ord(a[i]) < Ord(b[i]))

\* sorted(S) for a set S of strings.
RECURSIVE SortedNames(_)
SortedNames(S) ==
    IF S = {} THEN <<>>
    ELSE LET least == CHOOSE x \in S : \A y \in S \ {x} : LexLess(x, y)
         IN  <<least>> \o SortedNames(S \ {least})

(***************************************************************************)
(* main of 4_process_peak_ifn.py                                           *)
(***************************************************************************)

\* The directory name 'IFNclr3_30runs_global_celltocell_tau95_option1' (line
\* 88), abbreviated to its first letter: it contains 'option1' and does not
\* end in '_<digits>'.
BASE == <<"I">>

\* The paths glob gives for a replicate directory inside base_dir and beside it.
NestedPath(suffix) == BASE \o <<"/">> \o BASE \o suffix

SiblingPath(suffix) == <<".", "/">> \o BASE \o suffix

IsNestedPath(path) == SubSeq(path, 1, 2) = BASE \o <<"/">>

\* find_replicate_dirs, lines 9-11: the directories that match the pattern
\* inside root_path (base_dir or '.').
GlobReplicateDirs(disk, nested) == { p \in DOMAIN disk : IsNestedPath(p) = nested }

\* extract_replicate_id on a globbed path: the digits after the last '_' when
\* the path ends in '_<digits>', else 1 (the name contains 'option1').
extract_replicate_id(path) ==
    IF \E i \in 1..Len(path) :
           /\ path[i] = "_"
           /\ i < Len(path)
           /\ \A k \in (i + 1)..Len(path) : IsDigit(path[k])
    THEN LET i == CHOOSE i \in 1..Len(path) :
                      /\ path[i] = "_"
                      /\ i < Len(path)
                      /\ \A k \in (i + 1)..Len(path) : IsDigit(path[k])
         IN  int(SubSeq(path, i + 1, Len(path)))
    ELSE 1

\* A wrong loop: the first simulation directory that gives no data ends the
\* loop of line 113.
RECURSIVE ProcessSimDirsUntilBad(_, _)
ProcessSimDirsUntilBad(sim_dirs, replicate_id) ==
    IF sim_dirs = <<>> THEN [rows |-> <<>>, printed |-> <<>>]
    ELSE LET one == process_simulation_dir(Head(sim_dirs))
             rest == ProcessSimDirsUntilBad(Tail(sim_dirs), replicate_id)
             row == [burst_size_DIP |-> one.data.burst_size_DIP,
                     replicate_id |-> replicate_id,
                     seed |-> one.data.seed,
                     peak_IFN |-> one.data.peak_IFN,
                     t_peak_IFN |-> one.data.t_peak_IFN,
                     scenario |-> one.data.scenario]
         IN  IF one.data = NoData THEN [rows |-> <<>>, printed |-> one.printed]
             ELSE [rows |-> <<row>> \o rest.rows, printed |-> one.printed \o rest.printed]

\* Lines 113-117 for the simulation directories of one replicate directory:
\* the rows appended to results and the messages printed.
RECURSIVE ProcessSimDirs(_, _)
ProcessSimDirs(sim_dirs, replicate_id) ==
    IF sim_dirs = <<>> THEN [rows |-> <<>>, printed |-> <<>>]
    ELSE LET one == process_simulation_dir(Head(sim_dirs))
             rest == ProcessSimDirs(Tail(sim_dirs), replicate_id)
             row == [burst_size_DIP |-> one.data.burst_size_DIP,
                     replicate_id |-> replicate_id,
                     seed |-> one.data.seed,
                     peak_IFN |-> one.data.peak_IFN,
                     t_peak_IFN |-> one.data.t_peak_IFN,
                     scenario |-> one.data.scenario]
         IN  [rows |-> (IF one.data # NoData THEN <<row>> ELSE <<>>) \o rest.rows,
              printed |-> one.printed \o rest.printed]

\* A wrong end of main: the rows are written in the order they were collected.
rows_as_collected(rows) == rows

\* Line 127, sort_values(by='burst_size_DIP'): rows in non-decreasing burst
\* size; rows of one burst size keep their order (the sort of so few rows is
\* an insertion sort).
RECURSIVE SortByBurstSize(_)
SortByBurstSize(rows) ==
    IF rows = <<>> THEN <<>>
    ELSE LET i == CHOOSE i \in 1..Len(rows) :
                      /\ \A j \in 1..Len(rows) :
                             rows[i].burst_size_DIP <= rows[j].burst_size_DIP
                      /\ \A j \in 1..(i - 1) :
                             rows[j].burst_size_DIP # rows[i].burst_size_DIP
         IN  <<rows[i]>> \o SortByBurstSize(SubSeq(rows, 1, i - 1)
                                               \o SubSeq(rows, i + 1, Len(rows)))

NoCsv == [written |-> FALSE, rows |-> <<>>]

(***************************************************************************)
(* Inputs of SpecPeakMain: the base directory (with simulation directories *)
(* directly in it), one replicate directory inside it and one beside it,   *)
(* with at most MaxSims simulation directories in all.                     *)
(***************************************************************************)
MaxSims == 2

SimA ==
    [name |-> <<"1", "_">> \o Tag \o <<"1", "0", "0">>, seed |-> SeedFile(42),
     data |-> ReadableFile([c \in {TIME_COL, IFN_COL} |->
                  IF c = TIME_COL THEN TimeGrid(3) ELSE <<Num(1), Num(5), Num(3)>>])]

SimB ==
    [name |-> <<"2", "_">> \o Tag \o <<"5", "0">>, seed |-> NoSeedFile,
     data |-> ReadableFile([c \in {TIME_COL, IFN_COL} |->
                  IF c = TIME_COL THEN TimeGrid(2) ELSE <<Num(3), Num(3)>>])]

SimMissing ==
    [name |-> <<"3", "_">> \o Tag \o <<"1", "0", "0">>, seed |-> SeedFile(42),
     data |-> MissingFile]

SimUnreadable ==
    [name |-> <<"4", "_">> \o Tag \o <<"5", "0">>, seed |-> SeedFile(42),
     data |-> UnreadableFile]

SimNoColumn ==
    [name |-> <<"5", "_">> \o Tag \o <<"5", "0">>, seed |-> SeedFile(42),
     data |-> ReadableFile([c \in {TIME_COL} |-> TimeGrid(2)])]

SimNoTime ==
    [name |-> <<"6", "_">> \o Tag \o <<"5", "0">>, seed |-> SeedFile(42),
     data |-> ReadableFile([c \in {IFN_COL} |-> <<Num(3), Num(3)>>])]

\* A file that holds the header line only.
SimEmpty ==
    [name |-> <<"7", "_">> \o Tag \o <<"5", "0">>, seed |-> SeedFile(42),
     data |-> ReadableFile([c \in {TIME_COL, IFN_COL} |-> <<>>])]

MainSimDirs == {SimA, SimB, SimMissing, SimUnreadable, SimNoColumn, SimNoTime, SimEmpty}

\* What glob gives for one replicate directory: its simulation directories,
\* each once, in any order.
SimLists ==
    { l \in UNION { [1..n -> MainSimDirs] : n \in 0..MaxSims } :
        \A i, j \in 1..Len(l) : i # j => l[i].name # l[j].name }

NestedSuffixes == { <<>>, <<"_", "2">> }

\* The disks with the replicate directories paths and at most budget
\* simulation directories in all.
RECURSIVE DisksOver(_, _)
DisksOver(paths, budget) ==
    IF paths = {} THEN { <<>> }
    ELSE LET p == CHOOSE p \in paths : TRUE
         IN  UNION { { [q \in paths |-> IF q = p THEN l ELSE d[q]] :
                         d \in DisksOver(paths \ {p}, budget - Len(l)) } :
                     l \in { x \in SimLists : Len(x) <= budget } }

\* A nested replicate directory exists only inside an existing base directory,
\* which itself matches the pattern in '.'.
Disks ==
    UNION { DisksOver(paths, MaxSims) :
            paths \in { P \in SUBSET ({SiblingPath(<<>>), SiblingPath(<<"_", "2">>)}
                                       \cup { NestedPath(x) : x \in NestedSuffixes }) :
                          /\ Cardinality({ p \in P : IsNestedPath(p) }) <= 1
                          /\ (\E p \in P : IsNestedPath(p)) => SiblingPath(<<>>) \in P } }

IdlePeakMain ==
    /\ fs = <<>>
    /\ nested_replicate_dirs = {}
    /\ replicate_dirs = <<>>
    /\ rep_i = 0
    /\ results = <<>>
    /\ peak_csv = NoCsv

(***************************************************************************)
(* main of 2_process_csv_averages.py                                       *)
(***************************************************************************)

\* 'DIPBst' in item.
ContainsTag(name) == \E i \in 1..Len(name) : TagAt(name, i)

\* get_all_folders: the directories of '.' whose name contains the tag, sorted.
get_all_folders(dir) ==
    SortedNames({ item \in DOMAIN dir : dir[item].is_dir /\ ContainsTag(item) })

\* A wrong grouping: only the first folder of a value is kept.
FoldersOfFirst(seq, dipbst_value) ==
    LET i == CHOOSE i \in 1..Len(seq) :
                 /\ extract_dipbst_from_folder_name(seq[i]) = dipbst_value
                 /\ \A h \in 1..(i - 1) :
                        extract_dipbst_from_folder_name(seq[h]) # dipbst_value
    IN  <<seq[i]>>

\* Lines 40-43 for one value: the folders appended to its list, in order.
RECURSIVE FoldersOf(_, _)
FoldersOf(seq, dipbst_value) ==
    IF seq = <<>> THEN <<>>
    ELSE (IF extract_dipbst_from_folder_name(Head(seq)) = dipbst_value
          THEN <<Head(seq)>> ELSE <<>>)
             \o FoldersOf(Tail(seq), dipbst_value)

\* Lines 40-43: the values for which a list is created.
GroupKeys(seq) ==
    { extract_dipbst_from_folder_name(seq[i]) : i \in 1..Len(seq) } \ {None}

\* group_folders_by_dipbst: each folder whose name gives a value is appended
\* to the list of that value.
group_folders_by_dipbst(seq) == [k \in GroupKeys(seq) |-> FoldersOf(seq, k)]

\* The integers of S, descending.
RECURSIVE DescendingInts(_)
DescendingInts(S) ==
    IF S = {}
    THEN <<>>
    ELSE LET greatest == CHOOSE x \in S : \A z \in S : z <= x
         IN  <<greatest>> \o DescendingInts(S \ {greatest})

\* sorted() on integers.
RECURSIVE SortedInts(_)
SortedInts(S) ==
    IF S = {} THEN <<>>
    ELSE LET least == CHOOSE x \in S : \A y \in S : x <= y
         IN  <<least>> \o SortedInts(S \ {least})

\* The files <folder>/simulation_output.csv of a list of folders.
FilesOf(dir, names) == [i \in 1..Len(names) |-> dir[names[i]].file]

\* What calculate_averages_for_group prints for a group (lines 61-78).
RECURSIVE LoadMessages(_, _)
LoadMessages(dir, names) ==
    IF names = <<>> THEN <<>>
    ELSE (CASE dir[Head(names)].file.state = "missing" ->
                  <<Msg("Warning: not found", Head(names), None)>>
            [] dir[Head(names)].file.state = "unreadable" ->
                  <<Msg("Error reading", Head(names), None)>>
            [] OTHER -> <<>>)
             \o LoadMessages(dir, Tail(names))

GroupMessages(dir, names, group) ==
    <<Msg("Processing group", <<>>, group)>>
        \o LoadMessages(dir, names)
        \o (IF LoadAll(FilesOf(dir, names)) = <<>>
            THEN <<Msg("Error: No valid CSV files found for group", <<>>, group)>>
            ELSE <<Msg("Successfully loaded", <<>>, group)>>)

\* The number of folders a group should have (line 134).
ExpectedFolders == 30

(***************************************************************************)
(* Inputs of SpecMain: a directory of at most MaxEntries entries.          *)
(***************************************************************************)
MaxEntries == 4

MainNames ==
    { <<"1", "_">> \o Tag \o <<"1", "0", "0">>,
      <<"2", "_">> \o Tag \o <<"1", "0", "0">>,
      <<"3", "_">> \o Tag \o <<"1", "0", "0">>,
      <<"1", "_">> \o Tag \o <<"5", "0">>,
      <<"1", "_">> \o Tag \o <<"_", "x">>,
      <<"n", "o", "t", "e", "s">> }

MainTables ==
    { [c \in {TIME_COL, IFN_COL} |->
          IF c = TIME_COL THEN TimeGrid(2) ELSE NumColumn(v)] :
      v \in { <<1, 3>>, <<3, 3>> } }

MainFiles == {MissingFile, UnreadableFile} \cup { ReadableFile(df) : df \in MainTables }

\* A plain file has no simulation_output.csv inside.
DirEntries ==
    { [is_dir |-> FALSE, file |-> MissingFile] }
        \cup { [is_dir |-> TRUE, file |-> f] : f \in MainFiles }

Listings ==
    UNION { [names -> DirEntries] :
            names \in { S \in SUBSET MainNames : Cardinality(S) <= MaxEntries } }

IdleMain ==
    /\ listing = <<>>
    /\ folders = <<>>
    /\ groups = <<>>
    /\ todo = <<>>
    /\ summaries = <<>>
    /\ to_csv_calls = <<>>
    /\ to_csv_paths = <<>>

(***************************************************************************)
(* plot_ifn_levels_enhanced of 3_1_plot_ifn_levels_enhanced.py             *)
(***************************************************************************)
SummaryPrefix == <<"s", "u", "m", "m", "a", "r", "y", "_">> \o Tag

CsvSuffix == <<".", "c", "s", "v">>

\* glob.glob('summary_DIPBst*.csv').
GlobSummaryFiles(dir) ==
    { f \in DOMAIN dir :
        /\ Len(f) >= Len(SummaryPrefix) + Len(CsvSuffix)
        /\ SubSeq(f, 1, Len(SummaryPrefix)) = SummaryPrefix
        /\ SubSeq(f, Len(f) - Len(CsvSuffix) + 1, Len(f)) = CsvSuffix }

\* Lines 13-18.
extract_dipbst_from_filename(filename) ==
    LET group1 == re_search(filename)
    IN  IF group1 # <<>> THEN int(group1) ELSE None

\* str() of an int or of None, as an f-string formats it.
RECURSIVE str(_)
str(v) ==
    IF v = None THEN <<"N", "o", "n", "e">>
    ELSE IF v < 10 THEN <<DigitChars[v + 1]>>
    ELSE str(v \div 10) \o <<DigitChars[(v % 10) + 1]>>

\* Lines 42-44 succeed for a file: it can be read and has the column.
HasIFN(file) == file.state = "ok" /\ IFN_COL \in DOMAIN file.df

\* np.max of a column of numbers.
np_max(column) ==
    column[CHOOSE r \in 1..Len(column) :
               \A q \in 1..Len(column) : CellLeq(column[q], column[r])]

\* Lines 40-50, the list all_data: one entry for every file that could be
\* read, whatever the parser returned for its name.
RECURSIVE CollectAllData(_, _)
CollectAllData(dir, files) ==
    IF files = <<>> THEN <<>>
    ELSE (IF HasIFN(dir[Head(files)])
          THEN << [dipbst_value |-> extract_dipbst_from_filename(Head(files)),
                   ifn_level |-> dir[Head(files)].df[IFN_COL]] >>
          ELSE <<>>)
             \o CollectAllData(dir, Tail(files))

\* Line 47.
MaxIfnData(data) ==
    [i \in 1..Len(data) |->
        [dipbst_value |-> data[i].dipbst_value, max_ifn |-> np_max(data[i].ifn_level)]]

\* Line 50.
RECURSIVE CollectErrors(_, _)
CollectErrors(dir, files) ==
    IF files = <<>> THEN <<>>
    ELSE (IF HasIFN(dir[Head(files)]) THEN <<>>
          ELSE <<Msg("Error processing", Head(files), None)>>)
             \o CollectErrors(dir, Tail(files))

\* A wrong choice of the maximum: the value of the first entry, whatever its
\* maximum is.
first_dipbst(data) == data[1].dipbst_value

\* max(max_ifn_data, key=lambda x: x[1])[0]: the first entry of the largest
\* key.
FirstMaxDipbst(data) ==
    LET i == CHOOSE i \in 1..Len(data) :
                 /\ \A q \in 1..Len(data) : CellLeq(data[q].max_ifn, data[i].max_ifn)
                 /\ \A q \in 1..(i - 1) : ~CellLeq(data[i].max_ifn, data[q].max_ifn)
    IN  data[i].dipbst_value

\* list.sort compares the keys with <, which raises TypeError as soon as one
\* of two keys is None.
SortRaises(data) ==
    Len(data) >= 2 /\ \E i \in 1..Len(data) : data[i].dipbst_value = None

\* all_data.sort(key=lambda x: x[0]), a stable sort.
RECURSIVE SortByDipbst(_)
SortByDipbst(data) ==
    IF data = <<>> THEN <<>>
    ELSE LET i == CHOOSE i \in 1..Len(data) :
                      /\ \A q \in 1..Len(data) :
                             data[i].dipbst_value <= data[q].dipbst_value
                      /\ \A q \in 1..(i - 1) :
                             data[q].dipbst_value # data[i].dipbst_value
         IN  <<data[i]>>
                 \o SortByDipbst(SubSeq(data, 1, i - 1) \o SubSeq(data, i + 1, Len(data)))

\* Line 68: the file the loop reads the times from.
SummaryFileOf(dipbst_value) == SummaryPrefix \o str(dipbst_value) \o CsvSuffix

\* One name for every value.
fixed_filename(dipbst_value) == SummaryPrefix \o CsvSuffix

\* 2_process_csv_averages.py, line 142: f"summary_DIPBst{dipbst_value}.csv".
output_filename(dipbst_value) == SummaryPrefix \o str(dipbst_value) \o CsvSuffix

\* Lines 66-96 for one entry: the line is drawn unless the file of line 68
\* cannot be read, has no Time column, or its length differs from the
\* entry's.
LineDrawn(dir, entry) ==
    LET file == SummaryFileOf(entry.dipbst_value)
    IN  /\ file \in DOMAIN dir
        /\ dir[file].state = "ok"
        /\ TIME_COL \in DOMAIN dir[file].df
        /\ Len(dir[file].df[TIME_COL]) = Len(entry.ifn_level)

RECURSIVE PlotLines(_, _, _)
PlotLines(dir, data, max_dipbst) ==
    IF data = <<>> THEN <<>>
    ELSE (IF LineDrawn(dir, Head(data))
          THEN << [dipbst_value |-> Head(data).dipbst_value,
                   time |-> dir[SummaryFileOf(Head(data).dipbst_value)].df[TIME_COL],
                   ifn_level |-> Head(data).ifn_level,
                   color |-> IF Head(data).dipbst_value = max_dipbst
                             THEN "red" ELSE "blue"] >>
          ELSE <<>>)
             \o PlotLines(dir, Tail(data), max_dipbst)

RECURSIVE PlotMessages(_, _)
PlotMessages(dir, data) ==
    IF data = <<>> THEN <<>>
    ELSE << Msg(IF LineDrawn(dir, Head(data)) THEN "Plotted" ELSE "Error processing DIPBst",
                <<>>, Head(data).dipbst_value) >>
             \o PlotMessages(dir, Tail(data))

(***************************************************************************)
(* Inputs of SpecPlot: a directory of at most MaxPlotFiles files.          *)
(***************************************************************************)
MaxPlotFiles == 3

PlotNames ==
    { SummaryPrefix \o <<"1", "0", "0">> \o CsvSuffix,
      SummaryPrefix \o <<"5", "0">> \o CsvSuffix,
      SummaryPrefix \o <<"0", "5", "0">> \o CsvSuffix,
      SummaryPrefix \o <<"_", "x">> \o CsvSuffix,
      SummaryPrefix \o CsvSuffix,
      <<"n", "o", "t", "e", "s">> }

PlotFiles ==
    { UnreadableFile, ReadableFile([c \in {TIME_COL} |-> TimeGrid(2)]) }
        \cup { ReadableFile(df) : df \in MainTables }

PlotDirs ==
    UNION { [names -> PlotFiles] :
            names \in { S \in SUBSET PlotNames : Cardinality(S) <= MaxPlotFiles } }

IdlePlot ==
    /\ cwd = <<>>
    /\ summary_files = <<>>
    /\ all_data = <<>>
    /\ max_ifn_data = <<>>
    /\ max_ifn_dipbst = None
    /\ plot_lines = <<>>
    /\ saved_png = FALSE

(***************************************************************************)
(* main of process_summary_from_IFNclr3_30runs_global_celltocell_tau95_    *)
(* option1_2.py                                                            *)
(***************************************************************************)
\* Line 13.
burstSizeD_list == <<650, 680, 685, 690, 695, 700, 705, 710, 715, 720, 750>>

InList(v, list) == \E i \in 1..Len(list) : list[i] = v

\* The orders in which os.listdir can give the names S.
ListdirOrders(S) ==
    { o \in [1..Cardinality(S) -> S] : \A i, j \in 1..Cardinality(S) : i # j => o[i] # o[j] }

\* Lines 28-31 for one value: the folders appended to its list, in order.
RECURSIVE SelectedFoldersOf(_, _)
SelectedFoldersOf(seq, dipbst_value) ==
    IF seq = <<>> THEN <<>>
    ELSE (IF extract_dipbst_from_folder_name(Head(seq)) = dipbst_value
          THEN <<Head(seq)>> ELSE <<>>)
             \o SelectedFoldersOf(Tail(seq), dipbst_value)

\* Lines 26-32: the folders whose value is in selected_list, by value.
group_selected_folders(seq, selected_list) ==
    [k \in { v \in { extract_dipbst_from_folder_name(seq[i]) : i \in 1..Len(seq) } :
               InList(v, selected_list) } |->
        SelectedFoldersOf(seq, k)]

\* Lines 48-57: what is printed while the files of a group are loaded.
RECURSIVE SummaryLoadMessages(_, _)
SummaryLoadMessages(dir, names) ==
    IF names = <<>> THEN <<>>
    ELSE (CASE dir[Head(names)].file.state = "missing" ->
                  <<Msg("Missing", Head(names), None)>>
            [] dir[Head(names)].file.state = "unreadable" ->
                  <<Msg("Error reading", Head(names), None)>>
            [] OTHER -> <<>>)
             \o SummaryLoadMessages(dir, Tail(names))

\* Lines 47-77: the summary of the folders names, or NoFrame when no file
\* could be read. The code of lines 61-77 is that of
\* calculate_averages_for_group.
summary_df(dir, names) == calculate_averages_for_group(FilesOf(dir, names))

(***************************************************************************)
(* Inputs of SpecSummary: input_dir holds the directory output and at most *)
(* MaxInputFolders other entries.                                          *)
(***************************************************************************)
MaxInputFolders == 2

OUTPUT == <<"o", "u", "t", "p", "u", "t">>

InputNames ==
    { <<"1", "_">> \o Tag \o <<"6", "5", "0">>,
      <<"2", "_">> \o Tag \o <<"6", "5", "0">>,
      <<"1", "_">> \o Tag \o <<"7", "0", "0">>,
      <<"1", "_">> \o Tag \o <<"1", "0", "0">> }

\* Two tables of two rows whose times differ.
InputTables ==
    { [c \in {TIME_COL, IFN_COL} |->
          IF c = TIME_COL THEN NumColumn(<<0, 1>>) ELSE NumColumn(<<1, 3>>)],
      [c \in {TIME_COL, IFN_COL} |->
          IF c = TIME_COL THEN NumColumn(<<0, 2>>) ELSE NumColumn(<<3, 3>>)] }

InputEntries ==
    { [is_dir |-> FALSE, file |-> MissingFile], [is_dir |-> TRUE, file |-> MissingFile] }
        \cup { [is_dir |-> TRUE, file |-> ReadableFile(df)] : df \in InputTables }

\* os.makedirs(output_dir, exist_ok=True) of line 18 has run: output is a
\* directory of input_dir.
InputDirs ==
    UNION { { [n \in names \cup {OUTPUT} |->
                  IF n = OUTPUT THEN [is_dir |-> TRUE, file |-> MissingFile] ELSE d[n]] :
              d \in [names -> InputEntries] } :
            names \in { S \in SUBSET InputNames : Cardinality(S) <= MaxInputFolders } }

IdleSummary ==
    /\ input_dir = <<>>
    /\ all_folders = <<>>
    /\ grouped = <<>>
    /\ values_todo = <<>>
    /\ output_dir = <<>>
    /\ run_no = 0
    /\ first_output = <<>>

(***************************************************************************)
(* plot_ifn_max_scatter of 3_2_plot_ifn_max_scatter.py                     *)
(***************************************************************************)
\* Lines 40-53, the two lists: one entry for every file that could be read
\* and has the column.
RECURSIVE CollectMaxima(_, _)
CollectMaxima(dir, files) ==
    IF files = <<>> THEN <<>>
    ELSE (IF HasIFN(dir[Head(files)])
          THEN << <<extract_dipbst_from_filename(Head(files)),
                    np_max(dir[Head(files)].df[IFN_COL])>> >>
          ELSE <<>>)
             \o CollectMaxima(dir, Tail(files))

\* a < b for the tuples (dipbst_value, max_ifn) of line 56.
PairLess(a, b) ==
    \/ a[1] < b[1]
    \/ a[1] = b[1] /\ ~CellLeq(b[2], a[2])

\* sorted() compares the first elements of two tuples with < when they are
\* not equal, which raises TypeError when one of them is None.
SortedRaises(pairs) ==
    \E i, j \in 1..Len(pairs) : pairs[i][1] = None /\ pairs[j][1] # None

\* sorted(zip(dipbst_values, max_ifn_values)).
RECURSIVE SortedPairs(_)
SortedPairs(pairs) ==
    IF pairs = <<>> THEN <<>>
    ELSE LET i == CHOOSE i \in 1..Len(pairs) :
                      /\ \A q \in 1..Len(pairs) : ~PairLess(pairs[q], pairs[i])
                      /\ \A q \in 1..(i - 1) : PairLess(pairs[i], pairs[q])
         IN  <<pairs[i]>>
                 \o SortedPairs(SubSeq(pairs, 1, i - 1) \o SubSeq(pairs, i + 1, Len(pairs)))

\* A wrong maximum: the value of the last entry, as if the list were sorted
\* by value.
last_value(values) == values[Len(values)]

\* max() of a non-empty list of numbers.
python_max(values) ==
    values[CHOOSE i \in 1..Len(values) :
               /\ \A q \in 1..Len(values) : CellLeq(values[q], values[i])
               /\ \A q \in 1..(i - 1) : ~CellLeq(values[i], values[q])]

\* Lines 68-91: the point drawn for each entry.
ScatterPoints(values, maxima, overall) ==
    [i \in 1..Len(values) |->
        [dipbst |-> values[i], max_ifn |-> maxima[i],
         color |-> IF maxima[i] = overall THEN "red" ELSE "black"]]

(***************************************************************************)
(* Inputs of SpecScatter: a directory of at most MaxScatterFiles files.    *)
(***************************************************************************)
MaxScatterFiles == 3

ScatterFiles ==
    { UnreadableFile, ReadableFile([c \in {TIME_COL} |-> TimeGrid(2)]) }
        \cup { ReadableFile([c \in {TIME_COL, IFN_COL} |->
                                IF c = TIME_COL THEN TimeGrid(2) ELSE NumColumn(v)]) :
               v \in { <<1, 3>>, <<3, 3>>, <<1, 1>> } }

ScatterDirs ==
    UNION { [names -> ScatterFiles] :
            names \in { S \in SUBSET PlotNames : Cardinality(S) <= MaxScatterFiles } }

IdleScatter ==
    /\ summary_dir = <<>>
    /\ dipbst_values = <<>>
    /\ max_ifn_values = <<>>
    /\ max_ifn_overall = NaN
    /\ points = <<>>
    /\ scatter_saved = FALSE

(***************************************************************************)
(* fig5/5_analyze_peak_ifn.py: the optimum of a fitted curve.              *)
(***************************************************************************)
VIRION_BURST_SIZE == 50

\* Line 48: burst_size_DIP / VIRION_BURST_SIZE, an exact fraction here.
burst_size_ratio(burst_size_DIP) == Frac(burst_size_DIP, VIRION_BURST_SIZE)

GRID_POINTS == 500

\* X_data.min() and X_data.max().
ColumnMin(column) ==
    CHOOSE x \in { column[i] : i \in DOMAIN column } :
        \A i \in DOMAIN column : CellLeq(x, column[i])

ColumnMax(column) ==
    CHOOSE x \in { column[i] : i \in DOMAIN column } :
        \A i \in DOMAIN column : CellLeq(column[i], x)

\* np.linspace(start, stop, num) for start <= stop: num evenly spaced points,
\* the first is start and the last is stop.
np_linspace(start, stop, num) ==
    [i \in 1..num |->
        IF num = 1
        THEN start
        ELSE Frac(start.n * stop.d * (num - 1)
                      + (i - 1) * (stop.n * start.d - start.n * stop.d),
                  start.d * stop.d * (num - 1))]

Abs(x) == IF x < 0 THEN 0 - x ELSE x

Larger(a, b) == IF a >= b THEN a ELSE b

\* model.predict(xs). The fitted model is pygam's: a function of the input
\* value. Here it is a constant (flat) or the upper envelope of two tents
\* whose tops are at the positions p1 and p2 with heights h1 and h2. Where the
\* inputs xs are all the same value a function predicts one value.
predict(model, xs) ==
    [i \in 1..Len(xs) |->
        IF model.flat \/ xs[1] = xs[Len(xs)]
        THEN model.h1
        ELSE Larger(model.h1 - Abs(i - model.p1), model.h2 - Abs(i - model.p2))]

RECURSIVE ArgmaxLastIn(_, _, _)
ArgmaxLastIn(values, lo, hi) ==
    IF lo = hi
    THEN lo
    ELSE LET mid   == (lo + hi) \div 2
             left  == ArgmaxLastIn(values, lo, mid)
             right == ArgmaxLastIn(values, mid + 1, hi)
         IN  IF values[right] >= values[left] THEN right ELSE left

\* The position of the last maximum.
np_argmax_last(values) == ArgmaxLastIn(values, 1, Len(values))

\* The position of the first maximum of values[lo..hi]: the maximum of the
\* right half wins only when it is greater than that of the left half.
RECURSIVE ArgmaxIn(_, _, _)
ArgmaxIn(values, lo, hi) ==
    IF lo = hi
    THEN lo
    ELSE LET mid   == (lo + hi) \div 2
             left  == ArgmaxIn(values, lo, mid)
             right == ArgmaxIn(values, mid + 1, hi)
         IN  IF values[right] > values[left] THEN right ELSE left

\* np.argmax(values): the position of the first maximum.
np_argmax(values) == ArgmaxIn(values, 1, Len(values))

MaxObservations == 2

\* The burst sizes of the rows of ifn_peak_vs_dipburst_baseline.csv.
ObservedBurstSizes == {50, 100, 175}

\* X of line 50: one burst_size_ratio per row of the table.
ObservedInputs ==
    UNION { [1..n -> { burst_size_ratio(b) : b \in ObservedBurstSizes }]
            : n \in 1..MaxObservations }

\* The fitted models: tops at the first, an inner and the last grid point.
TentTops == {1, 250, GRID_POINTS}

TentHeights == {0, 1}

Models ==
    [flat : BOOLEAN, p1 : TentTops, h1 : TentHeights, p2 : TentTops, h2 : TentHeights]

IdleOptimum ==
    /\ X = <<>>
    /\ gam = None
    /\ grid = <<>>
    /\ preds = <<>>
    /\ b_star_observed = None

(***************************************************************************)
(* fig5/5_analyze_peak_ifn.py: the bootstrap and the permutation test.     *)
(***************************************************************************)
BURST_COL == "burst_size_DIP"

RATIO_COL == "burst_size_ratio"

PEAK_COL == "peak_IFN"

REPLICATE_COL == "replicate_id"

\* Lines 41-48: the table as read, with the column burst_size_ratio added.
WithRatio(frame) ==
    [c \in DOMAIN frame \cup {RATIO_COL} |->
        IF c = RATIO_COL
        THEN [i \in 1..Rows(frame) |-> burst_size_ratio(frame[BURST_COL][i].n)]
        ELSE frame[c]]

\* The rows of frame at the given positions, in that order.
Take(frame, positions) ==
    [c \in DOMAIN frame |-> [i \in 1..Len(positions) |-> frame[c][positions[i]]]]

\* The row of frame at position i.
RowAt(frame, i) == [c \in DOMAIN frame |-> frame[c][i]]

\* The distinct values of a column, ascending: the keys of groupby.
RECURSIVE AscendingCells(_)
AscendingCells(S) ==
    IF S = {}
    THEN <<>>
    ELSE LET least == CHOOSE x \in S : \A z \in S : CellLeq(x, z)
         IN  <<least>> \o AscendingCells(S \ {least})

GroupKeysOf(frame, col) == AscendingCells({ frame[col][i] : i \in 1..Rows(frame) })

\* The positions of the rows of one group, ascending.
PositionsOf(frame, col, key) ==
    SelectSeq([i \in 1..Rows(frame) |-> i], LAMBDA i : frame[col][i] = key)

\* DataFrame.sample(frac=1, replace=True): as many rows as the frame has,
\* each drawn from all the rows of the frame.
frame_sample(frame, col) ==
    { Take(frame, p) : p \in [1..Rows(frame) -> 1..Rows(frame)] }

\* For each group in turn, as many positions as the group has rows, each
\* drawn from the positions of that group.
RECURSIVE ResamplesOver(_, _, _)
ResamplesOver(frame, col, keys) ==
    IF keys = <<>>
    THEN { <<>> }
    ELSE LET own == PositionsOf(frame, col, Head(keys))
         IN  { [i \in 1..Len(own) |-> own[draw[i]]] \o rest :
                   draw \in [1..Len(own) -> 1..Len(own)],
                   rest \in ResamplesOver(frame, col, Tail(keys)) }

\* Line 86: frame.groupby(col).sample(frac=1, replace=True), every outcome.
groupby_sample(frame, col) ==
    { Take(frame, p) : p \in ResamplesOver(frame, col, GroupKeysOf(frame, col)) }

\* A draw with replacement from the values of the column.
np_random_choice(column) ==
    [1..Len(column) -> { column[i] : i \in 1..Len(column) }]

\* Line 104: np.random.permutation(column), every outcome.
np_random_permutation(column) ==
    { [i \in 1..Len(column) |-> column[o[i]]] :
          o \in { f \in [1..Len(column) -> 1..Len(column)] :
                      \A i, j \in 1..Len(column) : i # j => f[i] # f[j] } }

MaxBaselineRows == 3

MaxBootstrapIterations == 2

MaxPermutationIterations == 2

\* The burst sizes and the peak values of the rows of the table.
BaselineBurstSizes == {50, 100}

BaselinePeaks == {1, 2}

\* A table of ifn_peak_vs_dipburst_baseline.csv from its burst sizes and peaks.
BaselineTable(bursts, peaks) ==
    [c \in {BURST_COL, REPLICATE_COL, PEAK_COL} |->
        [i \in 1..Len(bursts) |->
            IF c = BURST_COL THEN Num(bursts[i])
            ELSE IF c = REPLICATE_COL THEN Num(i)
            ELSE Num(peaks[i])]]

\* The tables as 4_process_peak_ifn.py writes them: the rows ascending in
\* burst_size_DIP.
BaselineTables ==
    UNION { { BaselineTable(b, p) :
                  b \in { s \in [1..n -> BaselineBurstSizes] :
                              \A i \in 1..(n - 1) : s[i] <= s[i + 1] },
                  p \in [1..n -> BaselinePeaks] }
            : n \in 1..MaxBaselineRows }

\* ifn_peak_vs_dipburst_baseline.csv: absent, unreadable, or a table.
BaselineFiles ==
    {MissingFile, UnreadableFile} \cup { ReadableFile(t) : t \in BaselineTables }

IdleAnalyze ==
    /\ baseline_csv = MissingFile
    /\ df_observed = NoFrame
    /\ y_observed = <<>>
    /\ bootstrap_sample = NoFrame
    /\ boot_i = 0
    /\ df_perm = NoFrame
    /\ perm_i = 0
    /\ plot_data = NoFrame

(***************************************************************************)
(* group_folders_by_dipbst of process_selected_burstSizeD.py               *)
(***************************************************************************)
\* process_selected_burstSizeD.py, lines 32-38: a folder is appended to the
\* list of its value when the value is not None and is in selected_list.
\* The statements are those of group_selected_folders.
group_folders_by_dipbst_selected(seq, selected_list) ==
    group_selected_folders(seq, selected_list)

(***************************************************************************)
(* Inputs of SpecGroup: the sorted folder lists get_all_folders can return *)
(* for at most MaxGroupFolders directories whose names contain the tag:    *)
(* values inside and outside burstSizeD_list, and a name without digits.   *)
(***************************************************************************)
MaxGroupFolders == 3

GroupFolderNames == { n \in MainNames \cup InputNames : ContainsTag(n) }

GroupFolderLists ==
    { SortedNames(S) : S \in { T \in SUBSET GroupFolderNames :
                                 Cardinality(T) <= MaxGroupFolders } }

IdleGroup ==
    /\ tagged_folders = <<>>
    /\ groups_all = <<>>
    /\ groups_selected = <<>>

(***************************************************************************)
(* main of process_csv_averages_first_script.py, the body of the loop of   *)
(* line 40 for one group.                                                  *)
(***************************************************************************)
\* The column of a DataFrame in the concatenation: NaN in every row of a
\* DataFrame that lacks the column.
ColumnOrNaN(df, column) ==
    IF column \in DOMAIN df THEN df[column] ELSE [r \in 1..Rows(df) |-> NaN]

RECURSIVE ConcatColumn(_, _)
ConcatColumn(dfs, column) ==
    IF dfs = <<>> THEN <<>>
    ELSE ColumnOrNaN(Head(dfs), column) \o ConcatColumn(Tail(dfs), column)

\* Line 60: pd.concat(all_data, ignore_index=True), the rows of every
\* DataFrame one after the other, over the union of the columns.
pd_concat(dfs) ==
    [column \in UNION { DOMAIN dfs[i] : i \in 1..Len(dfs) } |-> ConcatColumn(dfs, column)]

\* The sum of the cells that are numbers.
RECURSIVE series_sum(_)
series_sum(column) ==
    IF column = <<>> THEN Num(0)
    ELSE LET h == Head(column)
             t == series_sum(Tail(column))
         IN  IF h.k = "nan" THEN t ELSE Frac(h.n * t.d + t.n * h.d, h.d * t.d)

\* Series.mean(): the mean of the cells that are not NaN.
series_mean(column) ==
    LET present == SelectSeq(column, LAMBDA c : c.k # "nan")
        total == series_sum(present)
    IN  IF present = <<>> THEN NaN ELSE Frac(total.n, total.d * Len(present))

\* The dtype of the column is int64 or float64.
IsIntOrFloatDtype(column) == \A r \in 1..Len(column) : column[r].k \in {"num", "nan"}

\* Lines 65-70: one entry of summary_data.
summary_value(column) ==
    IF IsIntOrFloatDtype(column) THEN series_mean(column) ELSE column[1]

\* Lines 52-56: what is printed while the files are read.
RECURSIVE FirstReadErrors(_)
FirstReadErrors(files) ==
    IF files = <<>> THEN <<>>
    ELSE (IF Head(files).state = "ok" THEN <<>> ELSE <<Msg("Error reading", <<>>, None)>>)
             \o FirstReadErrors(Tail(files))

\* Lines 60-73: summary_df, one row.
first_script_summary(dfs) ==
    LET combined_df == pd_concat(dfs)
    IN  [column \in DOMAIN combined_df |-> <<summary_value(combined_df[column])>>]

(***************************************************************************)
(* Inputs of SpecFirst: the CSV files of the folders of one group, at most *)
(* MaxCsvFiles of them: unreadable, without the IFN column, or with one or *)
(* two IFN values.                                                         *)
(***************************************************************************)
MaxCsvFiles == 2

FirstTables ==
    { [c \in {TIME_COL} |-> NumColumn(<<0>>)] }
        \cup { [c \in {IFN_COL} |-> NumColumn(v)] :
               v \in { <<1>>, <<3>>, <<1, 3>>, <<3, 1>>, <<3, 3>> } }

FirstFiles == {UnreadableFile} \cup { ReadableFile(df) : df \in FirstTables }

FirstGroups == UNION { [1..n -> FirstFiles] : n \in 1..MaxCsvFiles }

IdleFirst ==
    /\ group_csv_files = <<>>
    /\ first_summary = NoFrame
    /\ first_max_ifn = NoData

(***************************************************************************)
(* create_ifn1_to_ifn10_dualaxis_linear of fig6/create_ifn10_only_plots.py *)
(***************************************************************************)
\* Lines 297 and 312: range(1, 11) and range(10).
IFN_LEVELS == 10

\* Lines 298-304: ifn_files, the levels whose simulation_output.csv exists,
\* in the order of the loop.
ifn_files_found(dir) ==
    SelectSeq([i \in 1..IFN_LEVELS |-> i], LAMBDA i : dir[i] # "missing")

\* Lines 305-306: one warning for every level whose file does not exist.
IfnWarnings(dir) ==
    [k \in 1..Cardinality({ i \in 1..IFN_LEVELS : dir[i] = "missing" }) |->
        Msg("Warning: not found", <<>>, None)]

\* Lines 312-321: dead_colors, from mistyrose to red, as (r, g, b); entry i of
\* the sequence is dead_colors[i - 1] of the code, with t = (i - 1) / 9.
dead_colors ==
    [i \in 1..IFN_LEVELS |->
        <<Frac(1, 1), Frac(894 * (IFN_LEVELS - i), 9000), Frac(882 * (IFN_LEVELS - i), 9000)>>]

\* Lines 322-329: anti_colors, from alice blue to blue.
anti_colors ==
    [i \in 1..IFN_LEVELS |->
        <<Frac(941 * (IFN_LEVELS - i), 9000), Frac(973 * (IFN_LEVELS - i), 9000), Frac(1, 1)>>]

\* Lines 336-342 for the file at position idx + 1 of ifn_files: the two
\* curves drawn, none when the file cannot be read.
CurvesOfFile(dir, files, position) ==
    IF dir[files[position]] = "ok"
    THEN << [level |-> files[position], axis |-> "left", color |-> dead_colors[position]],
            [level |-> files[position], axis |-> "right", color |-> anti_colors[position]] >>
    ELSE <<>>

\* Lines 333-344: the curves drawn by the loop over enumerate(zip(ifn_files,
\* ifn_labels)).
RECURSIVE CurvesFrom(_, _, _)
CurvesFrom(dir, files, position) ==
    IF position > Len(files) THEN <<>>
    ELSE CurvesOfFile(dir, files, position) \o CurvesFrom(dir, files, position + 1)

\* Lines 343-344: one message for every file that cannot be read.
IfnReadErrors(dir, files) ==
    [k \in 1..Cardinality({ p \in 1..Len(files) : dir[files[p]] # "ok" }) |->
        Msg("Error reading", <<>>, None)]

(***************************************************************************)
(* Inputs of SpecDualAxis: for each of the ten levels the file is missing  *)
(* or present, at most MaxUnreadable of the present files cannot be read;  *)
(* the baseline file can be read or not.                                   *)
(***************************************************************************)
MaxUnreadable == 1

IfnDirs ==
    { d \in [1..IFN_LEVELS -> {"missing", "ok", "unreadable"}] :
        Cardinality({ i \in 1..IFN_LEVELS : d[i] = "unreadable" }) <= MaxUnreadable }

IdleDualAxis ==
    /\ ifn_dir = <<>>
    /\ baseline_readable = FALSE
    /\ ifn_files = <<>>
    /\ curves = <<>>
    /\ dualaxis_saved = FALSE

(***************************************************************************)
(* fig2/create_comparison_plot.py                                          *)
(***************************************************************************)
\* Lines 29 and 81: the fixed time points.
target_times == <<7, 13, 19, 25>>

SimColumns ==
    {"Time", "virionOnlyInfected", "dipOnlyInfected", "bothInfected",
     "Percentage Susceptible Cells", "GRID_SIZE"}

ExpColumns ==
    {"time", "virion_counts", "dip_counts", "both_infected_counts", "total_cells",
     "susceptible_counts"}

CountKeys == {"virion_counts", "dip_counts", "both_infected_counts", "susceptible_counts"}

\* Lines 19-25 and 72-78: the table before the loop fills it.
InitialData ==
    [key \in {"time"} \cup CountKeys |->
        IF key = "time" THEN NumColumn(target_times) ELSE NumColumn(<<0, 0, 0, 0>>)]

\* Lines 112-118 and 121-127: the hard-coded experimental data.
default_experimental ==
    [key \in {"time"} \cup CountKeys |->
        CASE key = "time" -> NumColumn(target_times)
          [] key = "virion_counts" -> NumColumn(<<0, 3, 253, 2033>>)
          [] key = "dip_counts" -> NumColumn(<<0, 0, 0, 21>>)
          [] key = "both_infected_counts" -> NumColumn(<<0, 0, 0, 55>>)
          [] key = "susceptible_counts" -> NumColumn(<<7020, 7017, 6767, 4911>>)]

\* A wrong handler: the table is left as the loop filled it.
keep_loaded(data) == data

\* Lines 110-127: either handler replaces the whole table.
experimental_handler(data) == default_experimental

\* df.iloc[(df[col] - target).abs().argsort()[:1]]: the row whose time is
\* nearest to the target, 0 for the empty selection of a table without rows.
\* The tables used here have no two rows equally near to a target.
closest_row(df, col, target) ==
    IF Rows(df) = 0 THEN 0
    ELSE CHOOSE r \in 1..Rows(df) :
             \A q \in 1..Rows(df) : Abs(df[col][r].n - target) <= Abs(df[col][q].n - target)

\* int(x) raises ValueError on NaN.
IntRaises(cell) == cell.k # "num"

\* int(x) of a number that is not negative.
int_of(cell) == Num(cell.n \div cell.d)

\* Lines 29-47 for the i-th target raise.
SimulationRowRaises(df, i) ==
    IF "Time" \notin DOMAIN df THEN TRUE
    ELSE IF Rows(df) = 0 THEN FALSE
    ELSE LET r == closest_row(df, "Time", target_times[i])
         IN  IF SimColumns \subseteq DOMAIN df
             THEN \E c \in SimColumns \ {"Time"} : IntRaises(df[c][r])
             ELSE TRUE

\* Lines 29-47, the i-th column of data_simulation.
SimulationRow(df, data, i) ==
    LET r == closest_row(df, "Time", target_times[i])
    IN  IF r = 0 THEN data
        ELSE LET grid_size == df["GRID_SIZE"][r]
                 total_cells == Frac(grid_size.n * grid_size.n, grid_size.d * grid_size.d)
                 percent == df["Percentage Susceptible Cells"][r]
             IN  [key \in DOMAIN data |->
                     CASE key = "time" -> data[key]
                       [] key = "virion_counts" ->
                            [data[key] EXCEPT ![i] = int_of(df["virionOnlyInfected"][r])]
                       [] key = "dip_counts" ->
                            [data[key] EXCEPT ![i] = int_of(df["dipOnlyInfected"][r])]
                       [] key = "both_infected_counts" ->
                            [data[key] EXCEPT ![i] = int_of(df["bothInfected"][r])]
                       [] key = "susceptible_counts" ->
                            [data[key] EXCEPT ![i] =
                                int_of(Frac(percent.n * total_cells.n,
                                            percent.d * total_cells.d * 100))]]

\* Lines 29-47: the loop from the i-th target on.
RECURSIVE SimulationRowsFrom(_, _, _)
SimulationRowsFrom(df, data, i) ==
    IF i > Len(target_times) THEN data
    ELSE SimulationRowsFrom(df, SimulationRow(df, data, i), i + 1)

\* Lines 16-47 raise: the file is missing or unreadable, or a row raises.
SimulationLoadRaises(file) ==
    IF file.state # "ok" THEN TRUE
    ELSE \E i \in 1..Len(target_times) : SimulationRowRaises(file.df, i)

\* a - b on cells: TypeError when one of them is text.
SubtractRaises(a, b) == a.k = "txt" \/ b.k = "txt"

Subtract(a, b) ==
    IF a.k = "nan" \/ b.k = "nan" THEN NaN ELSE Frac(a.n * b.d - b.n * a.d, a.d * b.d)

\* Lines 81-102 for the i-th target raise.
ExperimentalRowRaises(df, sim, i) ==
    IF "time" \notin DOMAIN df THEN TRUE
    ELSE IF Rows(df) = 0 THEN FALSE
    ELSE LET r == closest_row(df, "time", target_times[i])
         IN  IF {"virion_counts", "dip_counts", "both_infected_counts"} \subseteq DOMAIN df
             THEN IF closest_row(sim, "Time", target_times[i]) # 0
                  THEN IF {"total_cells", "susceptible_counts"} \subseteq DOMAIN df
                       THEN SubtractRaises(df["total_cells"][r], df["susceptible_counts"][r])
                       ELSE TRUE
                  ELSE "susceptible_counts" \notin DOMAIN df
             ELSE TRUE

\* Lines 81-102, the i-th column of data_experimental.
ExperimentalRow(df, sim, data, i) ==
    LET r == closest_row(df, "time", target_times[i])
        s == closest_row(sim, "Time", target_times[i])
    IN  IF r = 0 THEN data
        ELSE [key \in DOMAIN data |->
                 CASE key = "time" -> data[key]
                   [] key = "susceptible_counts" ->
                        [data[key] EXCEPT ![i] =
                            IF s # 0
                            THEN LET grid_size == sim["GRID_SIZE"][s]
                                     total_cells == Frac(grid_size.n * grid_size.n,
                                                         grid_size.d * grid_size.d)
                                 IN  Subtract(total_cells,
                                              Subtract(df["total_cells"][r],
                                                       df["susceptible_counts"][r]))
                            ELSE df["susceptible_counts"][r]]
                   [] OTHER -> [data[key] EXCEPT ![i] = df[key][r]]]

\* Lines 322-325: the files written by the four savefig calls.
comparison_plots ==
    {"comparison_plot_log.png", "comparison_plot_log.pdf",
     "comparison_plot_linear.png", "comparison_plot_linear.pdf"}

(***************************************************************************)
(* Inputs of SpecCompare: the two files missing, unreadable, or readable   *)
(* with a table of at most MaxCompareRows rows: complete, without rows,    *)
(* without a column, or with a cell the loop cannot use in its last row.   *)
(***************************************************************************)
MaxCompareRows == 2

CompareTimes ==
    { NumColumn([i \in 1..n |-> 7 + 13 * (i - 1)]) : n \in 0..MaxCompareRows }

SimTable(times, bad) ==
    [c \in SimColumns |->
        CASE c = "Time" -> times
          [] c = "GRID_SIZE" -> [r \in 1..Len(times) |-> Num(10)]
          [] c = "Percentage Susceptible Cells" ->
               [r \in 1..Len(times) |-> IF bad /\ r = Len(times) THEN NaN ELSE Num(50)]
          [] OTHER -> [r \in 1..Len(times) |-> Num(r)]]

ExpTable(times, bad) ==
    [c \in ExpColumns |->
        CASE c = "time" -> times
          [] c = "total_cells" ->
               [r \in 1..Len(times) |-> IF bad /\ r = Len(times) THEN Text("x") ELSE Num(90)]
          [] c = "susceptible_counts" -> [r \in 1..Len(times) |-> Num(80)]
          [] OTHER -> [r \in 1..Len(times) |-> Num(r + 1)]]

Without(df, column) == [c \in DOMAIN df \ {column} |-> df[c]]

SimTables ==
    UNION { { SimTable(t, FALSE), SimTable(t, TRUE), Without(SimTable(t, FALSE), "GRID_SIZE") } :
            t \in CompareTimes }

ExpTables ==
    UNION { { ExpTable(t, FALSE), ExpTable(t, TRUE), Without(ExpTable(t, FALSE), "total_cells"),
              Without(ExpTable(t, FALSE), "time") } : t \in CompareTimes }

SimFiles == {MissingFile, UnreadableFile} \cup { ReadableFile(df) : df \in SimTables }

ExpFiles == {MissingFile, UnreadableFile} \cup { ReadableFile(df) : df \in ExpTables }

IdleCompare ==
    /\ sim_output = MissingFile
    /\ infection_counts = MissingFile
    /\ data_simulation = <<>>
    /\ data_experimental = <<>>
    /\ target_i = 0
    /\ saved_plots = {}

(***************************************************************************)
(* fig5/1_bst_IFN_time_0503.py                                             *)
(***************************************************************************)
\* Line 12: [10] + [50] + list(range(100, 4201, 100)).
InSelectedBursts(v) == v = 10 \/ v = 50 \/ (v >= 100 /\ v <= 4200 /\ v % 100 = 0)

\* re.match(r'^\d+_', f).
StartsWithDigitsUnderscore(name) ==
    \E i \in 2..Len(name) : name[i] = "_" /\ \A k \in 1..(i - 1) : IsDigit(name[k])

\* Lines 42-51: the pairs (burst_value, folder) of the selected subfolders.
BurstPairs(dir) ==
    { <<extract_dipbst_from_folder_name(f), f>> :
      f \in { g \in DOMAIN dir : /\ StartsWithDigitsUnderscore(g)
                                 /\ extract_dipbst_from_folder_name(g) # None
                                 /\ InSelectedBursts(extract_dipbst_from_folder_name(g)) } }

\* The order of tuples: by burst value, then by folder name.
BurstPairLess(a, b) == a[1] < b[1] \/ (a[1] = b[1] /\ LexLess(a[2], b[2]))

\* Line 53: burst_folders.sort().
RECURSIVE SortedBurstPairs(_)
SortedBurstPairs(S) ==
    IF S = {} THEN <<>>
    ELSE LET least == CHOOSE a \in S : \A b \in S \ {a} : BurstPairLess(a, b)
         IN  <<least>> \o SortedBurstPairs(S \ {least})

\* Lines 58-62 for one burst value: the entry is assigned for every folder of
\* the value whose file exists, and holds what the last of them assigned.
max_ifn_of_burst(dir, pairs, burst_value) ==
    LET k == CHOOSE k \in 1..Len(pairs) :
                 /\ pairs[k][1] = burst_value /\ dir[pairs[k][2]].state = "ok"
                 /\ \A h \in (k + 1)..Len(pairs) :
                        ~(pairs[h][1] = burst_value /\ dir[pairs[h][2]].state = "ok")
    IN  np_max(dir[pairs[k][2]].df[IFN_COL])

\* Lines 56-62: max_ifn_lookup.
build_max_ifn_lookup(dir, pairs) ==
    [v \in { pairs[k][1] : k \in { h \in 1..Len(pairs) : dir[pairs[h][2]].state = "ok" } } |->
        max_ifn_of_burst(dir, pairs, v)]

\* Line 64: max(max_ifn_lookup, key=max_ifn_lookup.get), the first key, in
\* insertion order, of the greatest value; the keys were inserted in
\* ascending order.
first_max_key(lookup) ==
    CHOOSE v \in DOMAIN lookup :
        /\ \A w \in DOMAIN lookup : CellLeq(lookup[w], lookup[v])
        /\ \A w \in DOMAIN lookup : w < v => ~CellLeq(lookup[v], lookup[w])

\* Lines 76-114: the rows appended to ifn_results.
RECURSIVE IfnResultsOf(_, _, _)
IfnResultsOf(dir, pairs, lookup) ==
    IF pairs = <<>> THEN <<>>
    ELSE (IF dir[Head(pairs)[2]].state = "ok"
          THEN LET ifn_concentration == dir[Head(pairs)[2]].df[IFN_COL]
               IN  << [BurstSize |-> Head(pairs)[1],
                       End_IFN_Concentration |-> ifn_concentration[Len(ifn_concentration)],
                       Max_IFN_Concentration |-> lookup[Head(pairs)[1]]] >>
          ELSE <<>>)
             \o IfnResultsOf(dir, Tail(pairs), lookup)

\* Lines 113-114: one warning for every folder without the file.
BurstWarnings(dir, pairs) ==
    [k \in 1..Cardinality({ h \in 1..Len(pairs) : dir[pairs[h][2]].state # "ok" }) |->
        Msg("Warning: not found.", <<>>, None)]

\* Line 158: rank(method='min', ascending=False) of row r.
RankOf(rows, r) ==
    1 + Cardinality({ q \in 1..Len(rows) :
                        ~CellLeq(rows[q].Max_IFN_Concentration, rows[r].Max_IFN_Concentration) })

\* Lines 157-164: the rows of the CSV file: every row of ifn_results with its
\* Order, then a copy of the first row of the greatest maximum.
burst_summary(rows) ==
    LET first_max == CHOOSE r \in 1..Len(rows) :
                         /\ \A q \in 1..Len(rows) :
                                CellLeq(rows[q].Max_IFN_Concentration,
                                        rows[r].Max_IFN_Concentration)
                         /\ \A q \in 1..(r - 1) :
                                ~CellLeq(rows[r].Max_IFN_Concentration,
                                         rows[q].Max_IFN_Concentration)
    IN  [r \in 1..Len(rows) |->
            [BurstSize |-> rows[r].BurstSize,
             End_IFN_Concentration |-> rows[r].End_IFN_Concentration,
             Max_IFN_Concentration |-> rows[r].Max_IFN_Concentration,
             Order |-> RankOf(rows, r)]]
        \o << [BurstSize |-> rows[first_max].BurstSize,
               End_IFN_Concentration |-> rows[first_max].End_IFN_Concentration,
               Max_IFN_Concentration |-> rows[first_max].Max_IFN_Concentration,
               Order |-> "Max IFN BurstSize"] >>

(***************************************************************************)
(* Inputs of SpecBurst: at most MaxBurstFolders entries of base_dir, with  *)
(* selected and unselected burst values and two folders of one value; the  *)
(* simulation_output.csv of each is missing or holds an IFN series.        *)
(***************************************************************************)
MaxBurstFolders == 2

BurstFolderNames == MainNames \cup InputNames

BurstFiles ==
    {MissingFile, ReadableFile(ExampleTable(<<1, 5, 3>>)), ReadableFile(ExampleTable(<<2, 2, 3>>))}

BurstDirs ==
    UNION { [S -> BurstFiles] : S \in { T \in SUBSET BurstFolderNames :
                                          Cardinality(T) <= MaxBurstFolders } }

IdleBurst ==
    /\ burst_dir = <<>>
    /\ burst_folders = <<>>
    /\ max_ifn_lookup = <<>>
    /\ max_ifn_burst_value = None
    /\ ifn_results = <<>>
    /\ burst_csv = NoCsv

(***************************************************************************)
(* process_data of fig5/6_plot_avg_ifn_dynamics.py (process_avg_data of    *)
(* 7_combined_ifn_analysis_plot.py has the same statements), for the files *)
(* of one burst size.                                                      *)
(***************************************************************************)
\* Series.max(): the greatest of the cells that are not NaN, NaN without one.
series_max(column) ==
    LET present == SelectSeq(column, LAMBDA c : c.k # "nan")
    IN  IF present = <<>> THEN NaN
        ELSE present[CHOOSE r \in 1..Len(present) :
                         \A q \in 1..Len(present) : CellLeq(present[q], present[r])]

\* np.mean of a list of numbers: NaN as soon as one of them is NaN.
np_mean(values) ==
    IF \E i \in 1..Len(values) : values[i].k = "nan" THEN NaN ELSE series_mean(values)

\* Line 55: combined_df.groupby('Time')[ifn].mean(): for every time value of
\* the concatenation, in ascending order, the mean of the IFN cells of the
\* rows of that time.
groupby_time_mean(combined_df) ==
    LET times == AscendingCells({ combined_df[TIME_COL][r] : r \in 1..Rows(combined_df) })
    IN  [k \in 1..Len(times) |->
            [Time |-> times[k],
             value |-> series_mean(
                 [j \in 1..Cardinality({ r \in 1..Rows(combined_df) :
                                           combined_df[TIME_COL][r] = times[k] }) |->
                     combined_df[IFN_COL][
                         CHOOSE r \in 1..Rows(combined_df) :
                             /\ combined_df[TIME_COL][r] = times[k]
                             /\ Cardinality({ q \in 1..r :
                                    combined_df[TIME_COL][q] = times[k] }) = j]])]]

\* Line 59: the maximum of every run.
max_ifns_of(all_dfs) == [m \in 1..Len(all_dfs) |-> series_max(all_dfs[m][IFN_COL])]

(***************************************************************************)
(* Inputs of SpecDynamics: the runs of one burst size, at most MaxRuns,    *)
(* each a table on one of the time grids with IFN cells that are numbers   *)
(* or missing.                                                             *)
(***************************************************************************)
MaxRuns == 2

DynamicsCells == { NaN, Num(1), Num(5) }

DynamicsTables ==
    UNION { { [c \in {TIME_COL, IFN_COL} |-> IF c = TIME_COL THEN NumColumn(g) ELSE v] :
              v \in [1..Len(g) -> DynamicsCells] } : g \in TimeGrids }

DynamicsGroups == UNION { [1..n -> DynamicsTables] : n \in 1..MaxRuns }

IdleDynamics ==
    /\ run_tables = <<>>
    /\ time_series_avg = <<>>
    /\ avg_max_ifn = NoData

(***************************************************************************)
(* The two renderers of the averaged summaries, run one after the other in *)
(* the same directory: 3_1_plot_ifn_levels_enhanced.py, then               *)
(* 3_2_plot_ifn_max_scatter.py.                                            *)
(***************************************************************************)
\* 3_2, lines 62-63: max_ifn_values.index(max_ifn_overall) is the first
\* position of the maximum in the list sorted by DIPBst value.
reported_max_dipbst(values, maxima, overall) ==
    values[CHOOSE i \in 1..Len(maxima) :
               /\ maxima[i] = overall
               /\ \A q \in 1..(i - 1) : maxima[q] # overall]

MaxRenderFiles == 2

\* The directories the two renderers are run in.
RenderDirs ==
    UNION { [names -> ScatterFiles] :
            names \in { S \in SUBSET PlotNames : Cardinality(S) <= MaxRenderFiles } }

IdleRenderers == scatter_started = FALSE

(***************************************************************************)
(* src/fig4/5_plot_final.py: the plaque percentage at the marker times.    *)
(***************************************************************************)
PLAQUE_COL == "Plaque Percentage"

\* Line 31.
time_points_for_markers == <<0, 24, 48, 72, 96, 120, 144>>

\* Line 34, Series.isin: the value is one of the list's.
isin(cell, list) == \E k \in 1..Len(list) : cell = Num(list[k])

\* Lines 34-35: the Plaque Percentage of the rows whose Time is a marker
\* time, in the order of the rows of the table.
RECURSIVE values_at_markers(_, _)
values_at_markers(df, r) ==
    IF r > Rows(df) THEN <<>>
    ELSE (IF isin(df[TIME_COL][r], time_points_for_markers)
          THEN <<df[PLAQUE_COL][r]>> ELSE <<>>)
             \o values_at_markers(df, r + 1)

\* Lines 38, 41: matplotlib raises ValueError when x and y differ in length.
PlotRaises(x, y) == Len(x) # Len(y)

(***************************************************************************)
(* Inputs of SpecPlaque: tables whose rows are taken from the marker times *)
(* and MaxHalfSteps times between them, in ascending or descending order,  *)
(* or ascending with the first row repeated at the end. A run that ended   *)
(* early lacks the last times.                                             *)
(***************************************************************************)
MaxHalfSteps == 1

PlaqueTimes ==
    { time_points_for_markers[k] : k \in 1..Len(time_points_for_markers) }
        \cup { 12 + 24 * i : i \in 0..(MaxHalfSteps - 1) }

RECURSIVE AscendingTimes(_)
AscendingTimes(S) ==
    IF S = {} THEN <<>>
    ELSE LET t == CHOOSE t \in S : \A u \in S : t <= u
         IN  <<t>> \o AscendingTimes(S \ {t})

DescendingTimes(S) ==
    [i \in 1..Cardinality(S) |-> AscendingTimes(S)[Cardinality(S) + 1 - i]]

\* The share of dead cells grows with the time.
PlaqueTable(times) ==
    [c \in {TIME_COL, PLAQUE_COL} |->
        [i \in 1..Len(times) |-> IF c = TIME_COL THEN Num(times[i])
                                 ELSE Num(times[i] \div 12)]]

PlaqueTables ==
    { PlaqueTable(AscendingTimes(S)) : S \in SUBSET PlaqueTimes }
        \cup { PlaqueTable(DescendingTimes(S)) : S \in SUBSET PlaqueTimes }
        \cup { PlaqueTable(AscendingTimes(S) \o <<AscendingTimes(S)[1]>>) :
               S \in (SUBSET PlaqueTimes) \ {{}} }

IdlePlaque ==
    /\ plaque_df = NoFrame
    /\ plaque_percentage_values_at_markers = <<>>
    /\ plaque_plot = NoData
    /\ plaque_saved = FALSE

(***************************************************************************)
(* What each specification leaves alone.                                   *)
(***************************************************************************)
OthersOfParse ==
    <<aggVars, peakVars, outVars, peakMainVars, mainVars, plotVars,
      summaryVars, scatterVars, optimumVars, analyzeVars, groupVars,
      firstVars, dualAxisVars, compareVars, burstVars, dynamicsVars,
      rendererVars, plaqueVars>>

IdleOthersOfParse ==
    /\ IdleAgg /\ IdlePeak /\ InitOut /\ IdlePeakMain /\ IdleMain /\ IdlePlot
    /\ IdleSummary /\ IdleScatter /\ IdleOptimum /\ IdleAnalyze /\ IdleGroup
    /\ IdleFirst /\ IdleDualAxis /\ IdleCompare /\ IdleBurst /\ IdleDynamics
    /\ IdleRenderers /\ IdlePlaque

OthersOfAgg ==
    <<parseVars, peakVars, outVars, peakMainVars, mainVars, plotVars,
      summaryVars, scatterVars, optimumVars, analyzeVars, groupVars,
      firstVars, dualAxisVars, compareVars, burstVars, dynamicsVars,
      rendererVars, plaqueVars>>

IdleOthersOfAgg ==
    /\ IdleParse /\ IdlePeak /\ InitOut /\ IdlePeakMain /\ IdleMain
    /\ IdlePlot /\ IdleSummary /\ IdleScatter /\ IdleOptimum /\ IdleAnalyze
    /\ IdleGroup /\ IdleFirst /\ IdleDualAxis /\ IdleCompare /\ IdleBurst
    /\ IdleDynamics /\ IdleRenderers /\ IdlePlaque

OthersOfPeak ==
    <<parseVars, aggVars, peakMainVars, mainVars, plotVars, summaryVars,
      scatterVars, optimumVars, analyzeVars, groupVars, firstVars,
      dualAxisVars, compareVars, burstVars, dynamicsVars, rendererVars,
      plaqueVars>>

IdleOthersOfPeak ==
    /\ IdleParse /\ IdleAgg /\ IdlePeakMain /\ IdleMain /\ IdlePlot
    /\ IdleSummary /\ IdleScatter /\ IdleOptimum /\ IdleAnalyze /\ IdleGroup
    /\ IdleFirst /\ IdleDualAxis /\ IdleCompare /\ IdleBurst /\ IdleDynamics
    /\ IdleRenderers /\ IdlePlaque

OthersOfPeakMain ==
    <<parseVars, aggVars, peakVars, mainVars, plotVars, summaryVars,
      scatterVars, optimumVars, analyzeVars, groupVars, firstVars,
      dualAxisVars, compareVars, burstVars, dynamicsVars, rendererVars,
      plaqueVars>>

IdleOthersOfPeakMain ==
    /\ IdleParse /\ IdleAgg /\ IdlePeak /\ IdleMain /\ IdlePlot
    /\ IdleSummary /\ IdleScatter /\ IdleOptimum /\ IdleAnalyze /\ IdleGroup
    /\ IdleFirst /\ IdleDualAxis /\ IdleCompare /\ IdleBurst /\ IdleDynamics
    /\ IdleRenderers /\ IdlePlaque

OthersOfMain ==
    <<parseVars, aggVars, peakVars, peakMainVars, plotVars, summaryVars,
      scatterVars, optimumVars, analyzeVars, groupVars, firstVars,
      dualAxisVars, compareVars, burstVars, dynamicsVars, rendererVars,
      plaqueVars>>

IdleOthersOfMain ==
    /\ IdleParse /\ IdleAgg /\ IdlePeak /\ IdlePeakMain /\ IdlePlot
    /\ IdleSummary /\ IdleScatter /\ IdleOptimum /\ IdleAnalyze /\ IdleGroup
    /\ IdleFirst /\ IdleDualAxis /\ IdleCompare /\ IdleBurst /\ IdleDynamics
    /\ IdleRenderers /\ IdlePlaque

OthersOfPlot ==
    <<parseVars, aggVars, peakVars, peakMainVars, mainVars, summaryVars,
      scatterVars, optimumVars, analyzeVars, groupVars, firstVars,
      dualAxisVars, compareVars, burstVars, dynamicsVars, rendererVars,
      plaqueVars>>

IdleOthersOfPlot ==
    /\ IdleParse /\ IdleAgg /\ IdlePeak /\ IdlePeakMain /\ IdleMain
    /\ IdleSummary /\ IdleScatter /\ IdleOptimum /\ IdleAnalyze /\ IdleGroup
    /\ IdleFirst /\ IdleDualAxis /\ IdleCompare /\ IdleBurst /\ IdleDynamics
    /\ IdleRenderers /\ IdlePlaque

OthersOfSummary ==
    <<parseVars, aggVars, peakVars, peakMainVars, mainVars, plotVars,
      scatterVars, optimumVars, analyzeVars, groupVars, firstVars,
      dualAxisVars, compareVars, burstVars, dynamicsVars, rendererVars,
      plaqueVars>>

IdleOthersOfSummary ==
    /\ IdleParse /\ IdleAgg /\ IdlePeak /\ IdlePeakMain /\ IdleMain
    /\ IdlePlot /\ IdleScatter /\ IdleOptimum /\ IdleAnalyze /\ IdleGroup
    /\ IdleFirst /\ IdleDualAxis /\ IdleCompare /\ IdleBurst /\ IdleDynamics
    /\ IdleRenderers /\ IdlePlaque

OthersOfScatter ==
    <<parseVars, aggVars, peakVars, peakMainVars, mainVars, plotVars,
      summaryVars, optimumVars, analyzeVars, groupVars, firstVars,
      dualAxisVars, compareVars, burstVars, dynamicsVars, rendererVars,
      plaqueVars>>

IdleOthersOfScatter ==
    /\ IdleParse /\ IdleAgg /\ IdlePeak /\ IdlePeakMain /\ IdleMain
    /\ IdlePlot /\ IdleSummary /\ IdleOptimum /\ IdleAnalyze /\ IdleGroup
    /\ IdleFirst /\ IdleDualAxis /\ IdleCompare /\ IdleBurst /\ IdleDynamics
    /\ IdleRenderers /\ IdlePlaque

OthersOfOptimum ==
    <<parseVars, aggVars, peakVars, peakMainVars, mainVars, plotVars,
      summaryVars, scatterVars, analyzeVars, groupVars, firstVars,
      dualAxisVars, compareVars, burstVars, dynamicsVars, rendererVars,
      plaqueVars>>

IdleOthersOfOptimum ==
    /\ IdleParse /\ IdleAgg /\ IdlePeak /\ IdlePeakMain /\ IdleMain
    /\ IdlePlot /\ IdleSummary /\ IdleScatter /\ IdleAnalyze /\ IdleGroup
    /\ IdleFirst /\ IdleDualAxis /\ IdleCompare /\ IdleBurst /\ IdleDynamics
    /\ IdleRenderers /\ IdlePlaque

OthersOfAnalyze ==
    <<parseVars, aggVars, peakVars, peakMainVars, mainVars, plotVars,
      summaryVars, scatterVars, optimumVars, groupVars, firstVars,
      dualAxisVars, compareVars, burstVars, dynamicsVars, rendererVars,
      plaqueVars>>

IdleOthersOfAnalyze ==
    /\ IdleParse /\ IdleAgg /\ IdlePeak /\ IdlePeakMain /\ IdleMain
    /\ IdlePlot /\ IdleSummary /\ IdleScatter /\ IdleOptimum /\ IdleGroup
    /\ IdleFirst /\ IdleDualAxis /\ IdleCompare /\ IdleBurst /\ IdleDynamics
    /\ IdleRenderers /\ IdlePlaque

OthersOfGroup ==
    <<parseVars, aggVars, peakVars, peakMainVars, mainVars, plotVars,
      summaryVars, scatterVars, optimumVars, analyzeVars, firstVars,
      dualAxisVars, compareVars, burstVars, dynamicsVars, rendererVars,
      plaqueVars>>

IdleOthersOfGroup ==
    /\ IdleParse /\ IdleAgg /\ IdlePeak /\ IdlePeakMain /\ IdleMain
    /\ IdlePlot /\ IdleSummary /\ IdleScatter /\ IdleOptimum /\ IdleAnalyze
    /\ IdleFirst /\ IdleDualAxis /\ IdleCompare /\ IdleBurst /\ IdleDynamics
    /\ IdleRenderers /\ IdlePlaque

OthersOfFirst ==
    <<parseVars, aggVars, peakVars, peakMainVars, mainVars, plotVars,
      summaryVars, scatterVars, optimumVars, analyzeVars, groupVars,
      dualAxisVars, compareVars, burstVars, dynamicsVars, rendererVars,
      plaqueVars>>

IdleOthersOfFirst ==
    /\ IdleParse /\ IdleAgg /\ IdlePeak /\ IdlePeakMain /\ IdleMain
    /\ IdlePlot /\ IdleSummary /\ IdleScatter /\ IdleOptimum /\ IdleAnalyze
    /\ IdleGroup /\ IdleDualAxis /\ IdleCompare /\ IdleBurst /\ IdleDynamics
    /\ IdleRenderers /\ IdlePlaque

OthersOfDualAxis ==
    <<parseVars, aggVars, peakVars, peakMainVars, mainVars, plotVars,
      summaryVars, scatterVars, optimumVars, analyzeVars, groupVars,
      firstVars, compareVars, burstVars, dynamicsVars, rendererVars,
      plaqueVars>>

IdleOthersOfDualAxis ==
    /\ IdleParse /\ IdleAgg /\ IdlePeak /\ IdlePeakMain /\ IdleMain
    /\ IdlePlot /\ IdleSummary /\ IdleScatter /\ IdleOptimum /\ IdleAnalyze
    /\ IdleGroup /\ IdleFirst /\ IdleCompare /\ IdleBurst /\ IdleDynamics
    /\ IdleRenderers /\ IdlePlaque

OthersOfCompare ==
    <<parseVars, aggVars, peakVars, peakMainVars, mainVars, plotVars,
      summaryVars, scatterVars, optimumVars, analyzeVars, groupVars,
      firstVars, dualAxisVars, burstVars, dynamicsVars, rendererVars,
      plaqueVars>>

IdleOthersOfCompare ==
    /\ IdleParse /\ IdleAgg /\ IdlePeak /\ IdlePeakMain /\ IdleMain
    /\ IdlePlot /\ IdleSummary /\ IdleScatter /\ IdleOptimum /\ IdleAnalyze
    /\ IdleGroup /\ IdleFirst /\ IdleDualAxis /\ IdleBurst /\ IdleDynamics
    /\ IdleRenderers /\ IdlePlaque

OthersOfBurst ==
    <<parseVars, aggVars, peakVars, peakMainVars, mainVars, plotVars,
      summaryVars, scatterVars, optimumVars, analyzeVars, groupVars,
      firstVars, dualAxisVars, compareVars, dynamicsVars, rendererVars,
      plaqueVars>>

IdleOthersOfBurst ==
    /\ IdleParse /\ IdleAgg /\ IdlePeak /\ IdlePeakMain /\ IdleMain
    /\ IdlePlot /\ IdleSummary /\ IdleScatter /\ IdleOptimum /\ IdleAnalyze
    /\ IdleGroup /\ IdleFirst /\ IdleDualAxis /\ IdleCompare /\ IdleDynamics
    /\ IdleRenderers /\ IdlePlaque

OthersOfDynamics ==
    <<parseVars, aggVars, peakVars, peakMainVars, mainVars, plotVars,
      summaryVars, scatterVars, optimumVars, analyzeVars, groupVars,
      firstVars, dualAxisVars, compareVars, burstVars, rendererVars,
      plaqueVars>>

IdleOthersOfDynamics ==
    /\ IdleParse /\ IdleAgg /\ IdlePeak /\ IdlePeakMain /\ IdleMain
    /\ IdlePlot /\ IdleSummary /\ IdleScatter /\ IdleOptimum /\ IdleAnalyze
    /\ IdleGroup /\ IdleFirst /\ IdleDualAxis /\ IdleCompare /\ IdleBurst
    /\ IdleRenderers /\ IdlePlaque

OthersOfRenderers ==
    <<parseVars, aggVars, peakVars, peakMainVars, mainVars, plotVars,
      summaryVars, scatterVars, optimumVars, analyzeVars, groupVars,
      firstVars, dualAxisVars, compareVars, burstVars, dynamicsVars,
      plaqueVars>>

IdleOthersOfRenderers ==
    /\ IdleParse /\ IdleAgg /\ IdlePeak /\ IdlePeakMain /\ IdleMain
    /\ IdlePlot /\ IdleSummary /\ IdleScatter /\ IdleOptimum /\ IdleAnalyze
    /\ IdleGroup /\ IdleFirst /\ IdleDualAxis /\ IdleCompare /\ IdleBurst
    /\ IdleDynamics /\ IdlePlaque

OthersOfPlaque ==
    <<parseVars, aggVars, peakVars, peakMainVars, mainVars, plotVars,
      summaryVars, scatterVars, optimumVars, analyzeVars, groupVars,
      firstVars, dualAxisVars, compareVars, burstVars, dynamicsVars,
      rendererVars>>

IdleOthersOfPlaque ==
    /\ IdleParse /\ IdleAgg /\ IdlePeak /\ IdlePeakMain /\ IdleMain
    /\ IdlePlot /\ IdleSummary /\ IdleScatter /\ IdleOptimum /\ IdleAnalyze
    /\ IdleGroup /\ IdleFirst /\ IdleDualAxis /\ IdleCompare /\ IdleBurst
    /\ IdleDynamics /\ IdleRenderers

(***************************************************************************)
(* SpecAnalyze: main of 5_analyze_peak_ifn.py on one table of peaks. The   *)
(* fitted models and the statistics taken from them are pygam's, numpy's   *)
(* and statsmodels'; they read the frames and feed the lists               *)
(* b_star_bootstrapped, perm_r2 and perm_snr, which are kept here by their *)
(* lengths boot_i and perm_i. SpecOptimum has find_optimum.                *)
(***************************************************************************)
InitAnalyze ==
    /\ pc = "load"
    /\ baseline_csv \in BaselineFiles
    /\ df_observed = NoFrame
    /\ y_observed = <<>>
    /\ bootstrap_sample = NoFrame
    /\ boot_i = 0
    /\ df_perm = NoFrame
    /\ perm_i = 0
    /\ plot_data = NoFrame
    /\ InitOut
    /\ IdleOthersOfAnalyze

\* Lines 40-51. FileNotFoundError is caught and main returns; any other
\* failure of read_csv is not caught.
LoadData ==
    /\ pc = "load"
    /\ IF baseline_csv.state = "ok"
       THEN /\ df_observed' = WithRatio(baseline_csv.df)
            /\ y_observed' = baseline_csv.df[PEAK_COL]
            /\ pc' = "fit"
            /\ UNCHANGED <<printed_out, exit_status>>
       ELSE /\ printed_out' = printed_out
                   \o <<Msg(IF baseline_csv.state = "missing"
                            THEN "Error: 'ifn_peak_vs_dipburst_baseline.csv' not found."
                            ELSE "ParserError", <<>>, None)>>
            /\ exit_status' = IF baseline_csv.state = "missing" THEN 0 ELSE 1
            /\ pc' = "done"
            /\ UNCHANGED <<df_observed, y_observed>>
    /\ UNCHANGED <<baseline_csv, bootstrap_sample, boot_i, df_perm, perm_i, plot_data>>
    /\ UNCHANGED OthersOfAnalyze

\* Lines 53-82: the observed fit and its statistics, read from df and y.
FitObserved ==
    /\ pc = "fit"
    /\ printed_out' = printed_out
           \o <<Msg("Fitting Generalized Additive Model (GAM)...", <<>>, None),
                Msg("Running bootstrap samples", <<>>, None)>>
    /\ pc' = "bootstrap"
    /\ UNCHANGED <<baseline_csv, df_observed, y_observed, bootstrap_sample, boot_i, df_perm,
                   perm_i, plot_data, exit_status>>
    /\ UNCHANGED OthersOfAnalyze

\* Lines 84-92: one iteration of the bootstrap loop.
BootstrapIteration ==
    /\ pc = "bootstrap"
    /\ boot_i < MaxBootstrapIterations
    /\ bootstrap_sample' \in groupby_sample(df_observed, RATIO_COL)
    /\ boot_i' = boot_i + 1
    /\ UNCHANGED <<pc, baseline_csv, df_observed, y_observed, df_perm, perm_i, plot_data,
                   printed_out, exit_status>>
    /\ UNCHANGED OthersOfAnalyze

\* Lines 94-102: the interval, and the working copy of the permutation test.
CopyForPermutation ==
    /\ pc = "bootstrap"
    /\ boot_i = MaxBootstrapIterations
    /\ df_perm' = df_observed
    /\ printed_out' = printed_out \o <<Msg("Running permutations", <<>>, None)>>
    /\ pc' = "permute"
    /\ UNCHANGED <<baseline_csv, df_observed, y_observed, bootstrap_sample, boot_i, perm_i,
                   plot_data, exit_status>>
    /\ UNCHANGED OthersOfAnalyze

\* Lines 103-115: one iteration of the permutation loop.
PermutationIteration ==
    /\ pc = "permute"
    /\ perm_i < MaxPermutationIterations
    /\ \E labels \in np_random_permutation(df_perm[RATIO_COL]) :
           df_perm' = [df_perm EXCEPT ![RATIO_COL] = labels]
    /\ perm_i' = perm_i + 1
    /\ UNCHANGED <<pc, baseline_csv, df_observed, y_observed, bootstrap_sample, boot_i,
                   plot_data, printed_out, exit_status>>
    /\ UNCHANGED OthersOfAnalyze

\* Lines 117-170: the figure is drawn from df and saved, the results printed.
PlotAndReport ==
    /\ pc = "permute"
    /\ perm_i = MaxPermutationIterations
    /\ plot_data' = df_observed
    /\ printed_out' = printed_out
           \o <<Msg("Generating plot...", <<>>, None),
                Msg("Plot saved", <<>>, None),
                Msg("--- Analysis Results ---", <<>>, None)>>
    /\ exit_status' = 0
    /\ pc' = "done"
    /\ UNCHANGED <<baseline_csv, df_observed, y_observed, bootstrap_sample, boot_i, df_perm,
                   perm_i>>
    /\ UNCHANGED OthersOfAnalyze

NextAnalyze ==
    \/ LoadData
    \/ FitObserved
    \/ BootstrapIteration
    \/ CopyForPermutation
    \/ PermutationIteration
    \/ PlotAndReport

SpecAnalyze == InitAnalyze /\ [][NextAnalyze]_vars

(***************************************************************************)
(* SpecOptimum: find_optimum applied to one fitted model and its inputs,   *)
(* one action for each of its three statements.                            *)
(***************************************************************************)
InitOptimum ==
    /\ pc = "linspace"
    /\ X \in ObservedInputs
    /\ gam \in Models
    /\ grid = <<>>
    /\ preds = <<>>
    /\ b_star_observed = None
    /\ InitOut
    /\ IdleOthersOfOptimum

\* Line 33: grid = np.linspace(X_data.min(), X_data.max(), 500).
find_optimum_grid ==
    /\ pc = "linspace"
    /\ grid' = np_linspace(ColumnMin(X), ColumnMax(X), GRID_POINTS)
    /\ pc' = "predict"
    /\ UNCHANGED <<X, gam, preds, b_star_observed, printed_out, exit_status>>
    /\ UNCHANGED OthersOfOptimum

\* Line 34: preds = model.predict(grid).
find_optimum_preds ==
    /\ pc = "predict"
    /\ preds' = predict(gam, grid)
    /\ pc' = "argmax"
    /\ UNCHANGED <<X, gam, grid, b_star_observed, printed_out, exit_status>>
    /\ UNCHANGED OthersOfOptimum

\* Line 35, and line 78 where main keeps the value returned.
find_optimum_return ==
    /\ pc = "argmax"
    /\ b_star_observed' = grid[np_argmax(preds)]
    /\ pc' = "done"
    /\ UNCHANGED <<X, gam, grid, preds, printed_out, exit_status>>
    /\ UNCHANGED OthersOfOptimum

NextOptimum == find_optimum_grid \/ find_optimum_preds \/ find_optimum_return

SpecOptimum == InitOptimum /\ [][NextOptimum]_vars

(***************************************************************************)
(* SpecScatter                                                             *)
(***************************************************************************)
InitScatter ==
    /\ pc = "collect"
    /\ summary_dir \in ScatterDirs
    /\ dipbst_values = <<>>
    /\ max_ifn_values = <<>>
    /\ max_ifn_overall = NaN
    /\ points = <<>>
    /\ scatter_saved = FALSE
    /\ InitOut
    /\ IdleOthersOfScatter

\* Lines 27-53.
CollectMaxIfn ==
    /\ pc = "collect"
    /\ LET files == SortedNames(GlobSummaryFiles(summary_dir))
           pairs == CollectMaxima(summary_dir, files)
       IN  /\ dipbst_values' = [i \in 1..Len(pairs) |-> pairs[i][1]]
           /\ max_ifn_values' = [i \in 1..Len(pairs) |-> pairs[i][2]]
           /\ printed_out' = printed_out \o <<Msg("Found summary files", <<>>, None)>>
                                 \o CollectErrors(summary_dir, files)
    /\ pc' = "sort"
    /\ UNCHANGED <<summary_dir, max_ifn_overall, points, scatter_saved, exit_status>>
    /\ UNCHANGED OthersOfScatter

\* Lines 56-65. sorted() raises TypeError when a None stands beside a number
\* and max() raises ValueError on an empty list; neither is caught.
SortAndFindMaximum ==
    /\ pc = "sort"
    /\ LET pairs == [i \in 1..Len(dipbst_values) |-> <<dipbst_values[i], max_ifn_values[i]>>]
       IN  IF SortedRaises(pairs) \/ pairs = <<>>
           THEN /\ printed_out' = printed_out
                       \o <<Msg(IF pairs = <<>> THEN "ValueError" ELSE "TypeError",
                                <<>>, None)>>
                /\ exit_status' = 1
                /\ pc' = "done"
                /\ UNCHANGED <<dipbst_values, max_ifn_values, max_ifn_overall>>
           ELSE /\ dipbst_values' = [i \in 1..Len(pairs) |-> SortedPairs(pairs)[i][1]]
                /\ max_ifn_values' = [i \in 1..Len(pairs) |-> SortedPairs(pairs)[i][2]]
                /\ max_ifn_overall' = python_max(max_ifn_values')
                /\ printed_out' = printed_out \o <<Msg("Maximum IFN value", <<>>, None)>>
                /\ pc' = "draw"
                /\ UNCHANGED exit_status
    /\ UNCHANGED <<summary_dir, points, scatter_saved>>
    /\ UNCHANGED OthersOfScatter

\* Lines 68-125: the points are drawn and the figure is saved. Whether the
\* drawing calls accept None as a coordinate is left open: the run may end in
\* an exception there.
DrawAndSave ==
    /\ pc = "draw"
    /\ points' = ScatterPoints(dipbst_values, max_ifn_values, max_ifn_overall)
    /\ \E raised \in { FALSE } \cup { \E i \in 1..Len(dipbst_values) : dipbst_values[i] = None } :
           IF raised
           THEN /\ exit_status' = 1
                /\ printed_out' = printed_out \o <<Msg("TypeError", <<>>, None)>>
                /\ UNCHANGED scatter_saved
           ELSE /\ exit_status' = 0
                /\ scatter_saved' = TRUE
                /\ printed_out' = printed_out \o <<Msg("Scatter plot saved", <<>>, None)>>
    /\ pc' = "done"
    /\ UNCHANGED <<summary_dir, dipbst_values, max_ifn_values, max_ifn_overall>>
    /\ UNCHANGED OthersOfScatter

NextScatter == CollectMaxIfn \/ SortAndFindMaximum \/ DrawAndSave

SpecScatter == InitScatter /\ [][NextScatter]_vars

(***************************************************************************)
(* SpecSummary: the script is run twice on the same input directory.       *)
(***************************************************************************)
InitSummary ==
    /\ pc = "list"
    /\ input_dir \in InputDirs
    /\ all_folders = <<>>
    /\ grouped = <<>>
    /\ values_todo = <<>>
    /\ output_dir = <<>>
    /\ run_no = 1
    /\ first_output = <<>>
    /\ InitOut
    /\ IdleOthersOfSummary

\* Lines 36-38: the directories of input_dir in the order os.listdir gives
\* them, grouped.
ListAndGroup ==
    /\ pc = "list"
    /\ \E order \in ListdirOrders({ f \in DOMAIN input_dir : input_dir[f].is_dir }) :
           /\ all_folders' = order
           /\ grouped' = group_selected_folders(order, burstSizeD_list)
    /\ values_todo' = burstSizeD_list
    /\ printed_out' = printed_out \o <<Msg("Found DIPBst groups", <<>>, None)>>
    /\ pc' = "values"
    /\ UNCHANGED <<input_dir, output_dir, run_no, first_output, exit_status>>
    /\ UNCHANGED OthersOfSummary

\* Lines 40-80: one value of burstSizeD_list.
ProcessValue ==
    /\ pc = "values"
    /\ values_todo # <<>>
    /\ LET dipbst_value == Head(values_todo)
           names == IF dipbst_value \in DOMAIN grouped THEN grouped[dipbst_value] ELSE <<>>
           summary == summary_df(input_dir, names)
       IN  IF names = <<>>
           THEN /\ printed_out' = printed_out
                       \o <<Msg("Warning: No folders found", <<>>, dipbst_value)>>
                /\ UNCHANGED output_dir
           ELSE /\ printed_out' = printed_out
                       \o (IF Len(names) # ExpectedFolders
                           THEN <<Msg("Warning: expected 30", <<>>, dipbst_value)>>
                           ELSE <<>>)
                       \o SummaryLoadMessages(input_dir, names)
                       \o (IF summary = NoFrame
                           THEN <<Msg("No data", <<>>, dipbst_value)>>
                           ELSE <<Msg("Saved summary", <<>>, dipbst_value)>>)
                /\ output_dir' =
                       IF summary = NoFrame THEN output_dir
                       ELSE [k \in DOMAIN output_dir \cup {dipbst_value} |->
                                IF k = dipbst_value THEN summary ELSE output_dir[k]]
    /\ values_todo' = Tail(values_todo)
    /\ UNCHANGED <<pc, input_dir, all_folders, grouped, run_no, first_output, exit_status>>
    /\ UNCHANGED OthersOfSummary

\* The end of main. After the first run the script is started again, its
\* files left where they are.
EndOfRun ==
    /\ pc = "values"
    /\ values_todo = <<>>
    /\ exit_status' = 0
    /\ IF run_no = 1
       THEN /\ first_output' = output_dir
            /\ run_no' = 2
            /\ all_folders' = <<>>
            /\ grouped' = <<>>
            /\ printed_out' = <<>>
            /\ pc' = "list"
       ELSE /\ pc' = "done"
            /\ UNCHANGED <<first_output, run_no, all_folders, grouped, printed_out>>
    /\ UNCHANGED <<input_dir, values_todo, output_dir>>
    /\ UNCHANGED OthersOfSummary

NextSummary == ListAndGroup \/ ProcessValue \/ EndOfRun

SpecSummary == InitSummary /\ [][NextSummary]_vars

(***************************************************************************)
(* SpecPlot                                                                *)
(***************************************************************************)
InitPlot ==
    /\ pc = "collect"
    /\ cwd \in PlotDirs
    /\ summary_files = <<>>
    /\ all_data = <<>>
    /\ max_ifn_data = <<>>
    /\ max_ifn_dipbst = None
    /\ plot_lines = <<>>
    /\ saved_png = FALSE
    /\ InitOut
    /\ IdleOthersOfPlot

\* Lines 27-50: the first pass.
CollectSummaries ==
    /\ pc = "collect"
    /\ summary_files' = SortedNames(GlobSummaryFiles(cwd))
    /\ all_data' = CollectAllData(cwd, summary_files')
    /\ max_ifn_data' = MaxIfnData(all_data')
    /\ printed_out' = printed_out \o <<Msg("Found summary files", <<>>, None)>>
                          \o CollectErrors(cwd, summary_files')
    /\ pc' = "find_max"
    /\ UNCHANGED <<cwd, max_ifn_dipbst, plot_lines, saved_png, exit_status>>
    /\ UNCHANGED OthersOfPlot

\* Lines 53-62. max() of an empty list raises ValueError, the sort raises
\* TypeError on a None key; neither is caught, and the interpreter exits
\* with status 1.
FindMaxAndSort ==
    /\ pc = "find_max"
    /\ IF max_ifn_data = <<>>
       THEN /\ printed_out' = printed_out \o <<Msg("ValueError", <<>>, None)>>
            /\ exit_status' = 1
            /\ pc' = "done"
            /\ UNCHANGED <<max_ifn_dipbst, all_data>>
       ELSE /\ max_ifn_dipbst' = FirstMaxDipbst(max_ifn_data)
            /\ IF SortRaises(all_data)
               THEN /\ printed_out' = printed_out
                           \o << Msg("DIPBst with maximum IFN", <<>>, max_ifn_dipbst'),
                                 Msg("TypeError", <<>>, None) >>
                    /\ exit_status' = 1
                    /\ pc' = "done"
                    /\ UNCHANGED all_data
               ELSE /\ printed_out' = printed_out
                           \o <<Msg("DIPBst with maximum IFN", <<>>, max_ifn_dipbst')>>
                    /\ all_data' = SortByDipbst(all_data)
                    /\ pc' = "plot"
                    /\ UNCHANGED exit_status
    /\ UNCHANGED <<cwd, summary_files, max_ifn_data, plot_lines, saved_png>>
    /\ UNCHANGED OthersOfPlot

\* Lines 65-131: the second pass, and the figure is saved.
PlotAndSave ==
    /\ pc = "plot"
    /\ plot_lines' = PlotLines(cwd, all_data, max_ifn_dipbst)
    /\ printed_out' = printed_out \o PlotMessages(cwd, all_data)
                          \o <<Msg("Enhanced plot saved", <<>>, None)>>
    /\ saved_png' = TRUE
    /\ exit_status' = 0
    /\ pc' = "done"
    /\ UNCHANGED <<cwd, summary_files, all_data, max_ifn_data, max_ifn_dipbst>>
    /\ UNCHANGED OthersOfPlot

NextPlot == CollectSummaries \/ FindMaxAndSort \/ PlotAndSave

SpecPlot == InitPlot /\ [][NextPlot]_vars

(***************************************************************************)
(* SpecMain                                                                *)
(***************************************************************************)
InitMain ==
    /\ pc = "get_folders"
    /\ listing \in Listings
    /\ folders = <<>>
    /\ groups = <<>>
    /\ todo = <<>>
    /\ summaries = <<>>
    /\ to_csv_calls = <<>>
    /\ to_csv_paths = <<>>
    /\ InitOut
    /\ IdleOthersOfMain

\* Lines 119-127: list the folders and group them.
GetAndGroupFolders ==
    /\ pc = "get_folders"
    /\ folders' = get_all_folders(listing)
    /\ groups' = group_folders_by_dipbst(folders')
    /\ todo' = SortedInts(DOMAIN groups')
    /\ printed_out' = printed_out
           \o << Msg("Starting CSV processing...", <<>>, None),
                 Msg("Found folders", <<>>, None),
                 Msg("Found different DIPBst values", <<>>, None) >>
    /\ pc' = "groups"
    /\ UNCHANGED <<listing, summaries, to_csv_calls, to_csv_paths, exit_status>>
    /\ UNCHANGED OthersOfMain

\* Lines 130-146: one group.
ProcessGroup ==
    /\ pc = "groups"
    /\ todo # <<>>
    /\ LET dipbst_value == Head(todo)
           group_names == groups[dipbst_value]
           averaged == calculate_averages_for_group(FilesOf(listing, group_names))
       IN  /\ summaries' =
                  IF averaged # NoFrame
                  THEN [k \in DOMAIN summaries \cup {dipbst_value} |->
                            IF k = dipbst_value THEN averaged ELSE summaries[k]]
                  ELSE summaries
           /\ to_csv_calls' =
                  IF averaged # NoFrame THEN Append(to_csv_calls, dipbst_value)
                  ELSE to_csv_calls
           /\ to_csv_paths' =
                  IF averaged # NoFrame
                  THEN Append(to_csv_paths, output_filename(dipbst_value))
                  ELSE to_csv_paths
           /\ printed_out' = printed_out
                  \o <<Msg("Processing DIPBst =", <<>>, dipbst_value)>>
                  \o (IF Len(group_names) # ExpectedFolders
                      THEN <<Msg("Warning: Expected 30 folders", <<>>, dipbst_value)>>
                      ELSE <<>>)
                  \o GroupMessages(listing, group_names, dipbst_value)
                  \o (IF averaged # NoFrame
                      THEN <<Msg("Saved", <<>>, dipbst_value)>>
                      ELSE <<Msg("Failed to process group", <<>>, dipbst_value)>>)
    /\ todo' = Tail(todo)
    /\ UNCHANGED <<pc, listing, folders, groups, exit_status>>
    /\ UNCHANGED OthersOfMain

\* Line 148.
ProcessingComplete ==
    /\ pc = "groups"
    /\ todo = <<>>
    /\ printed_out' = printed_out \o <<Msg("Processing complete!", <<>>, None)>>
    /\ exit_status' = 0
    /\ pc' = "done"
    /\ UNCHANGED <<listing, folders, groups, todo, summaries, to_csv_calls,
                   to_csv_paths>>
    /\ UNCHANGED OthersOfMain

NextMain == GetAndGroupFolders \/ ProcessGroup \/ ProcessingComplete

SpecMain == InitMain /\ [][NextMain]_vars

\* The script is one sequential process: a step that can be taken is taken.
SpecMainFair == SpecMain /\ WF_vars(NextMain)

(***************************************************************************)
(* SpecGroup: the two group_folders_by_dipbst applied to one folder list.  *)
(***************************************************************************)
InitGroup ==
    /\ pc = "group"
    /\ tagged_folders \in GroupFolderLists
    /\ groups_all = <<>>
    /\ groups_selected = <<>>
    /\ InitOut
    /\ IdleOthersOfGroup

\* 2_process_csv_averages.py, line 126: groups = group_folders_by_dipbst(folders).
GroupAll ==
    /\ pc = "group"
    /\ groups_all' = group_folders_by_dipbst(tagged_folders)
    /\ pc' = "grouped"
    /\ UNCHANGED <<tagged_folders, groups_selected, printed_out, exit_status>>
    /\ UNCHANGED OthersOfGroup

\* process_selected_burstSizeD.py, line 88:
\* groups = group_folders_by_dipbst(folders, burstSizeD_list).
GroupSelected ==
    /\ pc = "grouped"
    /\ groups_selected' = group_folders_by_dipbst_selected(tagged_folders, burstSizeD_list)
    /\ pc' = "selected"
    /\ UNCHANGED <<tagged_folders, groups_all, printed_out, exit_status>>
    /\ UNCHANGED OthersOfGroup

NextGroup == GroupAll \/ GroupSelected

SpecGroup == InitGroup /\ [][NextGroup]_vars

(***************************************************************************)
(* SpecFirst: main of process_csv_averages_first_script.py on one group.   *)
(***************************************************************************)
InitFirst ==
    /\ pc = "first"
    /\ group_csv_files \in FirstGroups
    /\ first_summary = NoFrame
    /\ first_max_ifn = NoData
    /\ InitOut
    /\ IdleOthersOfFirst

\* Lines 45-83: the files are read and concatenated, the summary is written,
\* and the value of the IFN column of the summary is printed as 'Max IFN'.
SummariseFirstGroup ==
    /\ pc = "first"
    /\ LoadAll(group_csv_files) # <<>>
    /\ LET summary == first_script_summary(LoadAll(group_csv_files))
       IN  /\ first_summary' = summary
           /\ IF IFN_COL \in DOMAIN summary
              THEN /\ first_max_ifn' = summary[IFN_COL][1]
                   /\ printed_out' = printed_out \o FirstReadErrors(group_csv_files)
                                         \o <<Msg("Created", <<>>, None),
                                              Msg("Max IFN for DIPBst", <<>>, None)>>
              ELSE /\ first_max_ifn' = NoData
                   /\ printed_out' = printed_out \o FirstReadErrors(group_csv_files)
                                         \o <<Msg("Created", <<>>, None)>>
    /\ pc' = "first_done"
    /\ UNCHANGED <<group_csv_files, exit_status>>
    /\ UNCHANGED OthersOfFirst

\* Lines 84-85: no file of the group could be read.
NoValidCsvData ==
    /\ pc = "first"
    /\ LoadAll(group_csv_files) = <<>>
    /\ printed_out' = printed_out \o FirstReadErrors(group_csv_files)
                          \o <<Msg("No valid CSV data found for DIPBst", <<>>, None)>>
    /\ pc' = "first_done"
    /\ UNCHANGED <<group_csv_files, first_summary, first_max_ifn, exit_status>>
    /\ UNCHANGED OthersOfFirst

NextFirst == SummariseFirstGroup \/ NoValidCsvData

SpecFirst == InitFirst /\ [][NextFirst]_vars

(***************************************************************************)
(* SpecDualAxis: create_ifn1_to_ifn10_dualaxis_linear on one directory.    *)
(***************************************************************************)
InitDualAxis ==
    /\ pc = "ifn_collect"
    /\ ifn_dir \in IfnDirs
    /\ baseline_readable \in BOOLEAN
    /\ ifn_files = <<>>
    /\ curves = <<>>
    /\ dualaxis_saved = FALSE
    /\ InitOut
    /\ IdleOthersOfDualAxis

\* Lines 295-306.
CollectIfnFiles ==
    /\ pc = "ifn_collect"
    /\ ifn_files' = ifn_files_found(ifn_dir)
    /\ printed_out' = printed_out \o IfnWarnings(ifn_dir)
    /\ pc' = "ifn_plot"
    /\ UNCHANGED <<ifn_dir, baseline_readable, curves, dualaxis_saved, exit_status>>
    /\ UNCHANGED OthersOfDualAxis

\* Lines 308-344.
PlotIfnCurves ==
    /\ pc = "ifn_plot"
    /\ curves' = CurvesFrom(ifn_dir, ifn_files, 1)
    /\ printed_out' = printed_out \o IfnReadErrors(ifn_dir, ifn_files)
    /\ pc' = "ifn_baseline"
    /\ UNCHANGED <<ifn_dir, baseline_readable, ifn_files, dualaxis_saved, exit_status>>
    /\ UNCHANGED OthersOfDualAxis

\* Lines 346-419: the baseline curves, and the figure is saved.
PlotBaselineAndSave ==
    /\ pc = "ifn_baseline"
    /\ IF baseline_readable
       THEN /\ curves' = curves \o
                  << [level |-> 0, axis |-> "left", color |-> "darkorange"],
                     [level |-> 0, axis |-> "right", color |-> "darkturquoise"] >>
            /\ printed_out' = printed_out \o <<Msg("Saved:", <<>>, None)>>
       ELSE /\ curves' = curves
            /\ printed_out' = printed_out \o <<Msg("Error reading baseline file:", <<>>, None),
                                              Msg("Saved:", <<>>, None)>>
    /\ dualaxis_saved' = TRUE
    /\ pc' = "ifn_saved"
    /\ UNCHANGED <<ifn_dir, baseline_readable, ifn_files, exit_status>>
    /\ UNCHANGED OthersOfDualAxis

NextDualAxis == CollectIfnFiles \/ PlotIfnCurves \/ PlotBaselineAndSave

SpecDualAxis == InitDualAxis /\ [][NextDualAxis]_vars

(***************************************************************************)
(* SpecCompare: fig2/create_comparison_plot.py run on one pair of files.   *)
(***************************************************************************)
InitCompare ==
    /\ pc = "cmp_simulation"
    /\ sim_output \in SimFiles
    /\ infection_counts \in ExpFiles
    /\ data_simulation = <<>>
    /\ data_experimental = <<>>
    /\ target_i = 0
    /\ saved_plots = {}
    /\ InitOut
    /\ IdleOthersOfCompare

\* Lines 15-55: the simulation table is read and its four rows extracted.
LoadSimulation ==
    /\ pc = "cmp_simulation"
    /\ ~SimulationLoadRaises(sim_output)
    /\ data_simulation' = SimulationRowsFrom(sim_output.df, InitialData, 1)
    /\ printed_out' = printed_out \o <<Msg("Successfully loaded simulation data", <<>>, None),
                                      Msg("Simulation data loaded:", <<>>, None)>>
    /\ pc' = "cmp_experimental"
    /\ UNCHANGED <<sim_output, infection_counts, data_experimental, target_i, saved_plots,
                   exit_status>>
    /\ UNCHANGED OthersOfCompare

\* Lines 56-64: either handler prints and calls exit(1).
SimulationFails ==
    /\ pc = "cmp_simulation"
    /\ SimulationLoadRaises(sim_output)
    /\ printed_out' = printed_out \o
           (IF sim_output.state = "ok"
            THEN <<Msg("Successfully loaded simulation data", <<>>, None)>> ELSE <<>>)
           \o <<Msg(IF sim_output.state = "missing"
                    THEN "Error: simulation_output.csv not found."
                    ELSE "Error reading simulation_output.csv", <<>>, None)>>
    /\ exit_status' = 1
    /\ pc' = "cmp_exit"
    /\ UNCHANGED <<sim_output, infection_counts, data_simulation, data_experimental, target_i,
                   saved_plots>>
    /\ UNCHANGED OthersOfCompare

\* Lines 67-79: the experimental file is read and the table initialised.
ReadExperimental ==
    /\ pc = "cmp_experimental"
    /\ infection_counts.state = "ok"
    /\ data_experimental' = InitialData
    /\ target_i' = 1
    /\ printed_out' = printed_out \o <<Msg("Successfully loaded experimental data", <<>>, None)>>
    /\ pc' = "cmp_rows"
    /\ UNCHANGED <<sim_output, infection_counts, data_simulation, saved_plots, exit_status>>
    /\ UNCHANGED OthersOfCompare

\* Lines 81-102, one iteration; after the last one lines 104-109.
ExperimentalIteration ==
    /\ pc = "cmp_rows"
    /\ ~ExperimentalRowRaises(infection_counts.df, sim_output.df, target_i)
    /\ data_experimental' =
           ExperimentalRow(infection_counts.df, sim_output.df, data_experimental, target_i)
    /\ IF target_i = Len(target_times)
       THEN /\ pc' = "cmp_plot"
            /\ printed_out' = printed_out \o <<Msg("Experimental data loaded:", <<>>, None)>>
       ELSE /\ pc' = "cmp_rows"
            /\ printed_out' = printed_out
    /\ target_i' = target_i + 1
    /\ UNCHANGED <<sim_output, infection_counts, data_simulation, saved_plots, exit_status>>
    /\ UNCHANGED OthersOfCompare

\* Lines 110-127: the file is missing or cannot be read, or an iteration
\* raises; the handler sets the default data.
ExperimentalFails ==
    /\ \/ pc = "cmp_experimental" /\ infection_counts.state # "ok"
       \/ /\ pc = "cmp_rows"
          /\ ExperimentalRowRaises(infection_counts.df, sim_output.df, target_i)
    /\ data_experimental' = experimental_handler(data_experimental)
    /\ printed_out' = printed_out \o <<Msg("Using default hardcoded experimental data.", <<>>, None)>>
    /\ pc' = "cmp_plot"
    /\ UNCHANGED <<sim_output, infection_counts, data_simulation, target_i, saved_plots,
                   exit_status>>
    /\ UNCHANGED OthersOfCompare

\* Lines 129-345: the figures are drawn and saved, the comparison is printed
\* and the script ends.
SaveComparisonPlots ==
    /\ pc = "cmp_plot"
    /\ saved_plots' = comparison_plots
    /\ printed_out' = printed_out \o <<Msg("Comparison plot saved", <<>>, None)>>
    /\ exit_status' = 0
    /\ pc' = "cmp_done"
    /\ UNCHANGED <<sim_output, infection_counts, data_simulation, data_experimental, target_i>>
    /\ UNCHANGED OthersOfCompare

NextCompare ==
    \/ LoadSimulation
    \/ SimulationFails
    \/ ReadExperimental
    \/ ExperimentalIteration
    \/ ExperimentalFails
    \/ SaveComparisonPlots

SpecCompare == InitCompare /\ [][NextCompare]_vars

(***************************************************************************)
(* SpecBurst: fig5/1_bst_IFN_time_0503.py run on one base directory.       *)
(***************************************************************************)
InitBurst ==
    /\ pc = "burst_folders"
    /\ burst_dir \in BurstDirs
    /\ burst_folders = <<>>
    /\ max_ifn_lookup = <<>>
    /\ max_ifn_burst_value = None
    /\ ifn_results = <<>>
    /\ burst_csv = NoCsv
    /\ InitOut
    /\ IdleOthersOfBurst

\* Lines 42-53.
SelectBurstFolders ==
    /\ pc = "burst_folders"
    /\ burst_folders' = SortedBurstPairs(BurstPairs(burst_dir))
    /\ pc' = "burst_lookup"
    /\ UNCHANGED <<burst_dir, max_ifn_lookup, max_ifn_burst_value, ifn_results, burst_csv,
                   printed_out, exit_status>>
    /\ UNCHANGED OthersOfBurst

\* Lines 56-64; max() of an empty dict raises ValueError, which ends the
\* script.
BuildMaxIfnLookup ==
    /\ pc = "burst_lookup"
    /\ LET lookup == build_max_ifn_lookup(burst_dir, burst_folders)
       IN  /\ max_ifn_lookup' = lookup
           /\ IF DOMAIN lookup = {}
              THEN /\ max_ifn_burst_value' = None
                   /\ exit_status' = 1
                   /\ pc' = "burst_exit"
              ELSE /\ max_ifn_burst_value' = first_max_key(lookup)
                   /\ exit_status' = exit_status
                   /\ pc' = "burst_plot"
    /\ UNCHANGED <<burst_dir, burst_folders, ifn_results, burst_csv, printed_out>>
    /\ UNCHANGED OthersOfBurst

\* Lines 76-114.
PlotIfnDynamics ==
    /\ pc = "burst_plot"
    /\ ifn_results' = IfnResultsOf(burst_dir, burst_folders, max_ifn_lookup)
    /\ printed_out' = printed_out \o BurstWarnings(burst_dir, burst_folders)
    /\ pc' = "burst_save"
    /\ UNCHANGED <<burst_dir, burst_folders, max_ifn_lookup, max_ifn_burst_value, burst_csv,
                   exit_status>>
    /\ UNCHANGED OthersOfBurst

\* Lines 116-168: the figure is saved and the summary is written.
WriteBurstSummary ==
    /\ pc = "burst_save"
    /\ burst_csv' = [written |-> TRUE, rows |-> burst_summary(ifn_results)]
    /\ printed_out' = printed_out \o <<Msg("Saved combined figure to:", <<>>, None),
                                      Msg("Saved IFN summary to:", <<>>, None)>>
    /\ exit_status' = 0
    /\ pc' = "burst_done"
    /\ UNCHANGED <<burst_dir, burst_folders, max_ifn_lookup, max_ifn_burst_value, ifn_results>>
    /\ UNCHANGED OthersOfBurst

NextBurst == SelectBurstFolders \/ BuildMaxIfnLookup \/ PlotIfnDynamics \/ WriteBurstSummary

SpecBurst == InitBurst /\ [][NextBurst]_vars

(***************************************************************************)
(* SpecDynamics: the body of the loop of process_data for one burst size.  *)
(***************************************************************************)
InitDynamics ==
    /\ pc = "dynamics"
    /\ run_tables \in DynamicsGroups
    /\ time_series_avg = <<>>
    /\ avg_max_ifn = NoData
    /\ InitOut
    /\ IdleOthersOfDynamics

\* Lines 49-56: the averaged dynamics of the burst size.
AverageDynamics ==
    /\ pc = "dynamics"
    /\ time_series_avg' = groupby_time_mean(pd_concat(run_tables))
    /\ pc' = "dynamics_max"
    /\ UNCHANGED <<run_tables, avg_max_ifn, printed_out, exit_status>>
    /\ UNCHANGED OthersOfDynamics

\* Lines 59-60: the mean of the maxima of the runs.
AverageMaxIfn ==
    /\ pc = "dynamics_max"
    /\ avg_max_ifn' = np_mean(max_ifns_of(run_tables))
    /\ pc' = "dynamics_done"
    /\ UNCHANGED <<run_tables, time_series_avg, printed_out, exit_status>>
    /\ UNCHANGED OthersOfDynamics

NextDynamics == AverageDynamics \/ AverageMaxIfn

SpecDynamics == InitDynamics /\ [][NextDynamics]_vars

(***************************************************************************)
(* SpecRenderers: 3_1_plot_ifn_levels_enhanced.py runs to its end, then    *)
(* 3_2_plot_ifn_max_scatter.py is run in the same directory.               *)
(***************************************************************************)
OthersOfBothRenderers ==
    <<parseVars, aggVars, peakVars, peakMainVars, mainVars, summaryVars,
      optimumVars, analyzeVars, groupVars, firstVars, dualAxisVars, compareVars,
      burstVars, dynamicsVars, plaqueVars>>

InitRenderers ==
    /\ pc = "collect"
    /\ cwd \in RenderDirs
    /\ summary_files = <<>>
    /\ all_data = <<>>
    /\ max_ifn_data = <<>>
    /\ max_ifn_dipbst = None
    /\ plot_lines = <<>>
    /\ saved_png = FALSE
    /\ InitOut
    /\ IdleOthersOfPlot

\* The scatter renderer is started once the time-series renderer has ended,
\* in the directory the time-series renderer read.
StartScatter ==
    /\ ~scatter_started
    /\ pc = "done"
    /\ scatter_started' = TRUE
    /\ summary_dir' = cwd
    /\ exit_status' = None
    /\ pc' = "collect"
    /\ UNCHANGED <<printed_out, plotVars, dipbst_values, max_ifn_values,
                   max_ifn_overall, points, scatter_saved>>
    /\ UNCHANGED OthersOfBothRenderers

NextRenderers ==
    \/ ~scatter_started /\ CollectSummaries
    \/ ~scatter_started /\ FindMaxAndSort
    \/ ~scatter_started /\ PlotAndSave
    \/ StartScatter
    \/ scatter_started /\ CollectMaxIfn
    \/ scatter_started /\ SortAndFindMaximum
    \/ scatter_started /\ DrawAndSave

SpecRenderers == InitRenderers /\ [][NextRenderers]_vars

(***************************************************************************)
(* SpecPlaque: 5_plot_final.py on one simulation_output.csv. The columns   *)
(* of lines 13-18, read for the file name of the figure, are there.        *)
(***************************************************************************)
InitPlaque ==
    /\ pc = "plaque_filter"
    /\ plaque_df \in PlaqueTables
    /\ plaque_percentage_values_at_markers = <<>>
    /\ plaque_plot = NoData
    /\ plaque_saved = FALSE
    /\ InitOut
    /\ IdleOthersOfPlaque

\* Lines 31-35.
FilterAtMarkers ==
    /\ pc = "plaque_filter"
    /\ plaque_percentage_values_at_markers' = values_at_markers(plaque_df, 1)
    /\ pc' = "plaque_plot"
    /\ UNCHANGED <<plaque_df, plaque_plot, plaque_saved, printed_out, exit_status>>
    /\ UNCHANGED OthersOfPlaque

\* Lines 38-44: the line and the markers of the simulation. The ValueError of
\* ax.plot is not caught: the interpreter prints it and exits with status 1.
PlotPlaquePercentage ==
    /\ pc = "plaque_plot"
    /\ IF PlotRaises(time_points_for_markers, plaque_percentage_values_at_markers)
       THEN /\ printed_out' = printed_out \o <<Msg("ValueError", <<>>, None)>>
            /\ exit_status' = 1
            /\ pc' = "plaque_done"
            /\ UNCHANGED plaque_plot
       ELSE /\ plaque_plot' = [x |-> time_points_for_markers,
                               y |-> plaque_percentage_values_at_markers]
            /\ pc' = "plaque_save"
            /\ UNCHANGED <<printed_out, exit_status>>
    /\ UNCHANGED <<plaque_df, plaque_percentage_values_at_markers, plaque_saved>>
    /\ UNCHANGED OthersOfPlaque

\* Lines 82-88.
SavePlaquePlot ==
    /\ pc = "plaque_save"
    /\ plaque_saved' = TRUE
    /\ printed_out' = printed_out \o <<Msg("Plot saved to", <<>>, None)>>
    /\ exit_status' = 0
    /\ pc' = "plaque_done"
    /\ UNCHANGED <<plaque_df, plaque_percentage_values_at_markers, plaque_plot>>
    /\ UNCHANGED OthersOfPlaque

NextPlaque == FilterAtMarkers \/ PlotPlaquePercentage \/ SavePlaquePlot

SpecPlaque == InitPlaque /\ [][NextPlaque]_vars

(***************************************************************************)
(* SpecPipeline: main of 2_process_csv_averages.py, and then               *)
(* plot_ifn_levels_enhanced in the directory where the summaries were      *)
(* written. The terminal keeps what the first script printed.              *)
(***************************************************************************)
OthersOfPipeline ==
    <<parseVars, aggVars, peakVars, peakMainVars, summaryVars, scatterVars,
      optimumVars, analyzeVars, groupVars, firstVars, dualAxisVars, compareVars, burstVars, dynamicsVars, rendererVars, plaqueVars>>

InitPipeline == InitMain

\* The plotting script is started once the aggregator has ended: the current
\* directory holds the summary files the aggregator wrote.
StartPlot ==
    /\ pc = "done"
    /\ printed_out # <<>>
    /\ printed_out[Len(printed_out)].text = "Processing complete!"
    /\ cwd' = [f \in { to_csv_paths[i] : i \in 1..Len(to_csv_paths) } |->
                  ReadableFile(summaries[CHOOSE k \in DOMAIN summaries :
                                             output_filename(k) = f])]
    /\ exit_status' = None
    /\ pc' = "collect"
    /\ UNCHANGED <<printed_out, mainVars, summary_files, all_data, max_ifn_data,
                   max_ifn_dipbst, plot_lines, saved_png>>
    /\ UNCHANGED OthersOfPipeline

NextPipeline == NextMain \/ StartPlot \/ NextPlot

SpecPipeline == InitPipeline /\ [][NextPipeline]_vars

(***************************************************************************)
(* SpecPeakMain                                                            *)
(***************************************************************************)
InitPeakMain ==
    /\ pc = "find_nested"
    /\ fs \in Disks
    /\ nested_replicate_dirs = {}
    /\ replicate_dirs = <<>>
    /\ rep_i = 0
    /\ results = <<>>
    /\ peak_csv = NoCsv
    /\ InitOut
    /\ IdleOthersOfPeakMain

\* Line 92: find_replicate_dirs(base_dir), which exits when it finds nothing.
FindNestedReplicateDirs ==
    /\ pc = "find_nested"
    /\ IF GlobReplicateDirs(fs, TRUE) = {}
       THEN /\ printed_out' = printed_out \o <<Msg("Error: No replicate directories found matching pattern", <<>>, None)>>
            /\ exit_status' = 1
            /\ pc' = "exit"
            /\ UNCHANGED nested_replicate_dirs
       ELSE /\ nested_replicate_dirs' = GlobReplicateDirs(fs, TRUE)
            /\ pc' = "find_sibling"
            /\ UNCHANGED <<printed_out, exit_status>>
    /\ UNCHANGED <<fs, replicate_dirs, rep_i, results, peak_csv>>
    /\ UNCHANGED OthersOfPeakMain

\* Lines 95-103: find_replicate_dirs('.'), then the sorted union.
FindSiblingReplicateDirs ==
    /\ pc = "find_sibling"
    /\ IF GlobReplicateDirs(fs, FALSE) = {}
       THEN /\ printed_out' = printed_out \o <<Msg("Error: No replicate directories found matching pattern", <<>>, None)>>
            /\ exit_status' = 1
            /\ pc' = "exit"
            /\ UNCHANGED <<replicate_dirs, rep_i>>
       ELSE LET sorted == SortedNames(nested_replicate_dirs \cup GlobReplicateDirs(fs, FALSE))
            IN  IF sorted = <<>>
                THEN /\ printed_out' = printed_out \o <<Msg("Error: No replicate directories found in known locations.", <<>>, None)>>
                     /\ exit_status' = 1
                     /\ pc' = "exit"
                     /\ UNCHANGED <<replicate_dirs, rep_i>>
                ELSE /\ replicate_dirs' = sorted
                     /\ rep_i' = 1
                     /\ pc' = "loop"
                     /\ UNCHANGED <<printed_out, exit_status>>
    /\ UNCHANGED <<fs, nested_replicate_dirs, results, peak_csv>>
    /\ UNCHANGED OthersOfPeakMain

\* Lines 105-117: one replicate directory, all its simulation directories.
\* (extract_replicate_id returns None for no globbed path: every one contains
\* 'option1'.)
ProcessReplicateDir ==
    /\ pc = "loop"
    /\ rep_i <= Len(replicate_dirs)
    /\ LET rep_dir == replicate_dirs[rep_i]
           done == ProcessSimDirs(fs[rep_dir], extract_replicate_id(rep_dir))
       IN  /\ results' = results \o done.rows
           /\ printed_out' = printed_out \o done.printed
    /\ rep_i' = rep_i + 1
    /\ UNCHANGED <<pc, exit_status, fs, nested_replicate_dirs, replicate_dirs, peak_csv>>
    /\ UNCHANGED OthersOfPeakMain

\* Lines 119-147: exit when there is no result, else sort and write the CSV.
WritePeakCsv ==
    /\ pc = "loop"
    /\ rep_i > Len(replicate_dirs)
    /\ IF results = <<>>
       THEN /\ printed_out' = printed_out \o <<Msg("Error: No simulation results could be processed.", <<>>, None)>>
            /\ exit_status' = 1
            /\ pc' = "exit"
            /\ UNCHANGED peak_csv
       ELSE /\ peak_csv' = [written |-> TRUE, rows |-> SortByBurstSize(results)]
            /\ exit_status' = 0
            /\ pc' = "done"
            /\ UNCHANGED printed_out
    /\ UNCHANGED <<fs, nested_replicate_dirs, replicate_dirs, rep_i, results>>
    /\ UNCHANGED OthersOfPeakMain

NextPeakMain ==
    \/ FindNestedReplicateDirs
    \/ FindSiblingReplicateDirs
    \/ ProcessReplicateDir
    \/ WritePeakCsv

SpecPeakMain == InitPeakMain /\ [][NextPeakMain]_vars

(***************************************************************************)
(* SpecPeak: process_simulation_dir applied to one simulation directory.   *)
(***************************************************************************)
InitPeak ==
    /\ pc = "peak"
    /\ sim_dir \in SimDirs
    /\ peak_data = NoData
    /\ InitOut
    /\ IdleOthersOfPeak

ProcessSimulationDir ==
    /\ pc = "peak"
    /\ peak_data' = process_simulation_dir(sim_dir).data
    /\ printed_out' = printed_out \o process_simulation_dir(sim_dir).printed
    /\ pc' = "peak_done"
    /\ UNCHANGED <<sim_dir, exit_status>>
    /\ UNCHANGED OthersOfPeak

NextPeak == ProcessSimulationDir

SpecPeak == InitPeak /\ [][NextPeak]_vars

(***************************************************************************)
(* SpecParse: the parser applied to one name.                              *)
(***************************************************************************)
InitParse ==
    /\ pc = "parse"
    /\ folder_name \in Names
    /\ dipbst = None
    /\ IdleOthersOfParse

ExtractDipbst ==
    /\ pc = "parse"
    /\ dipbst' = extract_dipbst_from_folder_name(folder_name)
    /\ pc' = "parsed"
    /\ UNCHANGED folder_name
    /\ UNCHANGED OthersOfParse

NextParse == ExtractDipbst

SpecParse == InitParse /\ [][NextParse]_vars

(***************************************************************************)
(* SpecAgg: calculate_averages_for_group applied to one group, and then    *)
(* to the same folders supplied in another order.                          *)
(***************************************************************************)
InitAgg ==
    /\ pc = "agg"
    /\ group_folders \in
           UNION { [1..n -> AggFiles] : n \in 1..MaxMembers } \cup {ExampleGroup}
    /\ averaged_df = NoFrame
    /\ folders_reordered = <<>>
    /\ averaged_reordered = NoFrame
    /\ IdleOthersOfAgg

CalculateAverages ==
    /\ pc = "agg"
    /\ averaged_df' = calculate_averages_for_group(group_folders)
    /\ pc' = "agg_reordered"
    /\ UNCHANGED <<group_folders, folders_reordered, averaged_reordered>>
    /\ UNCHANGED OthersOfAgg

CalculateAveragesReordered ==
    /\ pc = "agg_reordered"
    /\ \E perm \in Permutations(1..Len(group_folders)) :
           LET supplied == [i \in 1..Len(group_folders) |-> group_folders[perm[i]]]
           IN  /\ folders_reordered' = supplied
               /\ averaged_reordered' = calculate_averages_for_group(supplied)
    /\ pc' = "agg_done"
    /\ UNCHANGED <<group_folders, averaged_df>>
    /\ UNCHANGED OthersOfAgg

NextAgg == CalculateAverages \/ CalculateAveragesReordered

SpecAgg == InitAgg /\ [][NextAgg]_vars

(***************************************************************************)
(* C1                                                                      *)
(***************************************************************************)
\* The digits ds (a run of width w) read as a decimal numeral, by formatting:
\* the n whose w-digit zero-padded decimal representation is ds.
RECURSIVE Pow10(_)
Pow10(w) == IF w = 0 THEN 1 ELSE 10 * Pow10(w - 1)

ZeroPadded(n, w) == [k \in 1..w |-> DigitChars[((n \div Pow10(w - k)) % 10) + 1]]

NumberWritten(ds) == CHOOSE n \in 0..(Pow10(Len(ds)) - 1) : ZeroPadded(n, Len(ds)) = ds

\* i..j is the first place of name where the tag is followed by digits, j the
\* end of that digit run.
FirstTaggedDigits(name, i, j) ==
    /\ TagAt(name, i)
    /\ i + Len(Tag) <= j /\ j <= Len(name)
    /\ \A k \in (i + Len(Tag))..j : IsDigit(name[k])
    /\ (j = Len(name) \/ ~IsDigit(name[j + 1]))
    /\ \A h \in 1..(i - 1) : ~(TagAt(name, h) /\ h + Len(Tag) <= Len(name)
                                /\ IsDigit(name[h + Len(Tag)]))

\* C1: for every name that contains the tag DIPBst followed by digits the
\* parser returns exactly the integer those digits write, and for every name
\* that does not contain the tag it returns None.
C1_ParserReturnsWrittenInteger ==
    pc = "parsed" =>
        /\ \A i \in 1..Len(folder_name) : \A j \in 1..Len(folder_name) :
               FirstTaggedDigits(folder_name, i, j) =>
                   dipbst = NumberWritten(SubSeq(folder_name, i + Len(Tag), j))
        /\ (~ContainsTag(folder_name) => dipbst = None)

\* A name with a two-digit parameter after a prefix that itself holds the tag
\* without digits has been parsed.
C1_Witness ==
    /\ pc = "parsed"
    /\ folder_name = <<"D", "I", "P", "B", "s", "t", "_">> \o Tag \o <<"1", "0">>
                         \o <<"_", "n", "o", "J">>
    /\ dipbst = 10

\* A name without the tag has been parsed to None.
C1_WitnessNone ==
    /\ pc = "parsed"
    /\ ~ContainsTag(folder_name)
    /\ dipbst = None

(***************************************************************************)
(* C2                                                                      *)
(***************************************************************************)
\* The record has what peak extraction needs: a tagged name, a readable table
\* with rows, the Time column and a numeric IFN column with a value.
UsableSimDir(sim) ==
    /\ \E i \in 1..Len(sim.name) : MatchAt(sim.name, i)
    /\ sim.data.state = "ok"
    /\ {TIME_COL, IFN_COL} \subseteq DOMAIN sim.data.df
    /\ \A i \in 1..Rows(sim.data.df) : sim.data.df[IFN_COL][i].k \in {"num", "nan"}
    /\ \E i \in 1..Rows(sim.data.df) : sim.data.df[IFN_COL][i].k = "num"

\* C2: the reported peak_IFN is the maximum value of the IFN column and
\* t_peak_IFN is the Time value of the same row; when several rows share the
\* maximum, the row reported is the first such row in file order.
C2_PeakIsFirstMaximum ==
    pc = "peak_done" =>
        /\ UsableSimDir(sim_dir) <=> peak_data # NoData
        /\ peak_data # NoData =>
               LET ifn == sim_dir.data.df[IFN_COL]
                   time == sim_dir.data.df[TIME_COL]
               IN  \E r \in 1..Len(ifn) :
                       /\ ifn[r].k = "num"
                       /\ \A q \in 1..Len(ifn) : ifn[q].k = "num" => ifn[q].n <= ifn[r].n
                       /\ \A q \in 1..(r - 1) : ifn[q].k = "num" => ifn[q].n < ifn[r].n
                       /\ peak_data.peak_IFN = ifn[r]
                       /\ peak_data.t_peak_IFN = time[r]

\* The example of the specification with a tie added: values [1,5,5] at times
\* [0,1,2] give peak 5 at time 1.
C2_Witness ==
    /\ pc = "peak_done"
    /\ sim_dir.data.state = "ok"
    /\ IFN_COL \in DOMAIN sim_dir.data.df
    /\ sim_dir.data.df[IFN_COL] = <<Num(1), Num(5), Num(5)>>
    /\ peak_data # NoData
    /\ peak_data.peak_IFN = Num(5)
    /\ peak_data.t_peak_IFN = Num(1)


(***************************************************************************)
(* C3 - C7: calculate_averages_for_group                                   *)
(***************************************************************************)
\* The DataFrames the function loaded from the group.
Loaded == LoadAll(group_folders)

RECURSIVE SumFn(_)
SumFn(f) ==
    IF DOMAIN f = {} THEN 0
    ELSE LET x == CHOOSE x \in DOMAIN f : TRUE
         IN  f[x].n + SumFn([y \in DOMAIN f \ {x} |-> f[y]])

\* Cell v is the arithmetic mean of the (integer) cells of f, a function from
\* places <<member, row>> to cells.
IsMeanOf(v, f) ==
    /\ DOMAIN f # {}
    /\ v.k = "num"
    /\ v.n * Cardinality(DOMAIN f) = v.d * SumFn(f)

\* The places <<member, row>> of column col that stand at time t.
PlacesAtTime(dfs, col, t) ==
    UNION { { <<m, r>> : r \in { q \in 1..Rows(dfs[m]) : dfs[m][TIME_COL][q] = t } } :
            m \in { h \in 1..Len(dfs) : col \in DOMAIN dfs[h] } }

\* The places <<member, row>> of column col in row r.
PlacesInRow(dfs, col, r) ==
    { p \in (1..Len(dfs)) \X {r} :
        col \in DOMAIN dfs[p[1]] /\ r <= Rows(dfs[p[1]]) }

CellsAt(dfs, col, places) == [p \in places |-> dfs[p[1]][col][p[2]]]

SharedTimeGrid(dfs) == \A m \in 1..Len(dfs) : dfs[m][TIME_COL] = dfs[1][TIME_COL]

SameRowCount(dfs) == \A m \in 1..Len(dfs) : Rows(dfs[m]) = Rows(dfs[1])

\* Column col holds numbers in every member that has it.
NumericColumn(dfs, col) ==
    \A m \in 1..Len(dfs) :
        col \in DOMAIN dfs[m] => \A i \in 1..Rows(dfs[m]) : dfs[m][col][i].k = "num"

TextColumn(column) == \A i \in 1..Len(column) : column[i].k = "txt"

\* C3: for a group whose members share an identical time grid, every numeric
\* non-Time column of the summary holds, at each time point, the arithmetic
\* mean of the members' values at that time point.
C3_MeanOnSharedGrid ==
    (pc # "agg" /\ Loaded # <<>> /\ SharedTimeGrid(Loaded)) =>
        /\ DOMAIN averaged_df = DOMAIN Loaded[1]
        /\ averaged_df[TIME_COL] = Loaded[1][TIME_COL]
        /\ \A col \in DOMAIN averaged_df \ {TIME_COL} :
               NumericColumn(Loaded, col) =>
                   \A r \in 1..Rows(averaged_df) :
                       IsMeanOf(averaged_df[col][r],
                                CellsAt(Loaded, col,
                                    PlacesAtTime(Loaded, col, averaged_df[TIME_COL][r])))

\* The example of the specification: [1,2,3], [3,2,1], [2,2,2] on the grid
\* [0,1,2] aggregate to [2,2,2].
C3_Witness ==
    /\ pc = "agg_reordered"
    /\ group_folders = ExampleGroup
    /\ averaged_df[TIME_COL] = NumColumn(<<0, 1, 2>>)
    /\ averaged_df[IFN_COL] = NumColumn(<<2, 2, 2>>)

\* C4 as claimed (on members of equal length): for every set of run records
\* the summary is the same whatever the order in which the members are
\* supplied.
C4_OrderIndependent ==
    (pc = "agg_done" /\ SameRowCount(Loaded)) => averaged_reordered = averaged_df

\* The records differ only in their numeric measurements: same columns, same
\* Time column, and every column that is not numeric is the same in all.
DifferOnlyInMeasurements(dfs) ==
    \A m \in 1..Len(dfs) :
        /\ DOMAIN dfs[m] = DOMAIN dfs[1]
        /\ dfs[m][TIME_COL] = dfs[1][TIME_COL]
        /\ \A col \in DOMAIN dfs[1] :
               ~NumericColumn(dfs, col) => dfs[m][col] = dfs[1][col]

\* C4 amended: for every set of run records that differ only in their numeric
\* measurements (same columns, same Time column, same non-numeric columns) the
\* summary is the same whatever the order in which the members are supplied.
C4_OrderIndependentOnSharedGrid ==
    (pc = "agg_done" /\ DifferOnlyInMeasurements(Loaded)) =>
        averaged_reordered = averaged_df

\* Two different records on one grid were averaged in both orders.
C4_Witness ==
    /\ pc = "agg_done"
    /\ Len(Loaded) = 2
    /\ DifferOnlyInMeasurements(Loaded)
    /\ Loaded[1] # Loaded[2]
    /\ folders_reordered # group_folders
    /\ averaged_reordered = averaged_df
    /\ averaged_df # Loaded[1]

\* C5 as claimed: the summary of a group with exactly one readable member is
\* that member's record, every column unchanged.
C5_SingleMemberUnchanged ==
    (pc # "agg" /\ Len(Loaded) = 1) => averaged_df = Loaded[1]

\* C6 as claimed (on members of equal length): the value emitted for time t is
\* the mean of the members' values in the rows whose Time equals t.
C6_AlignedByTime ==
    (pc # "agg" /\ Loaded # <<>> /\ SameRowCount(Loaded)) =>
        \A col \in DOMAIN averaged_df \ {TIME_COL} :
            NumericColumn(Loaded, col) =>
                \A r \in 1..Rows(averaged_df) :
                    IsMeanOf(averaged_df[col][r],
                             CellsAt(Loaded, col,
                                 PlacesAtTime(Loaded, col, averaged_df[TIME_COL][r])))

\* C6 amended: the aggregator aligns members by row position, not by time: the
\* value in row r of a numeric column is computed from the members' rows r
\* alone -- their mean when the members that have the column have equally
\* many rows, the first member's value otherwise -- and is labelled with the
\* first member's Time of row r.
C6_AlignedByRowPosition ==
    (pc # "agg" /\ Loaded # <<>>) =>
        /\ averaged_df[TIME_COL] = Loaded[1][TIME_COL]
        /\ \A col \in DOMAIN averaged_df \ {TIME_COL} :
               NumericColumn(Loaded, col) =>
                   \A r \in 1..Rows(averaged_df) :
                       IF \A m \in 1..Len(Loaded) :
                              col \in DOMAIN Loaded[m] => Rows(Loaded[m]) = Rows(Loaded[1])
                       THEN IsMeanOf(averaged_df[col][r],
                                     CellsAt(Loaded, col, PlacesInRow(Loaded, col, r)))
                       ELSE averaged_df[col][r] = Loaded[1][col][r]

\* Two members with the grids [0,1] and [0,2]: the summary row labelled time 1
\* holds the mean of a value taken at time 1 and a value taken at time 2.
C6_Witness ==
    /\ pc # "agg"
    /\ Len(Loaded) = 2
    /\ Loaded[1][TIME_COL] = NumColumn(<<0, 1>>)
    /\ Loaded[2][TIME_COL] = NumColumn(<<0, 2>>)
    /\ Loaded[1][IFN_COL][2] = Num(1)
    /\ Loaded[2][IFN_COL][2] = Num(3)
    /\ averaged_df[TIME_COL][2] = Num(1)
    /\ averaged_df[IFN_COL][2] = Num(2)

\* C7 as claimed: every text column of the summary equals the first loaded
\* member's column.
C7_TextColumnFromFirst ==
    (pc # "agg" /\ Loaded # <<>>) =>
        \A col \in DOMAIN Loaded[1] :
            TextColumn(Loaded[1][col]) =>
                col \in DOMAIN averaged_df /\ averaged_df[col] = Loaded[1][col]

(***************************************************************************)
(* C8: main of 2_process_csv_averages.py                                   *)
(***************************************************************************)
Printed(m) == \E i \in 1..Len(printed_out) : printed_out[i] = m

\* The loop of line 130 has finished with group k.
GroupDone(k) ==
    /\ pc \in {"groups", "done"}
    /\ k \in DOMAIN groups
    /\ \A i \in 1..Len(todo) : todo[i] # k

\* The members of group k whose simulation_output.csv exists and can be read.
ReadableMembers(k) ==
    { i \in 1..Len(groups[k]) : listing[groups[k][i]].file.state = "ok" }

SkippedMembers(k) == (1..Len(groups[k])) \ ReadableMembers(k)

MemberTable(k, i) == listing[groups[k][i]].file.df

\* Summary k holds, row by row, the mean of the readable members of group k.
SummaryIsMeanOfReadable(k) ==
    /\ k \in DOMAIN summaries
    /\ \A i \in ReadableMembers(k) :
           /\ DOMAIN summaries[k] = DOMAIN MemberTable(k, i)
           /\ summaries[k][TIME_COL] = MemberTable(k, i)[TIME_COL]
    /\ \A r \in 1..Rows(summaries[k]) :
           IsMeanOf(summaries[k][IFN_COL][r],
                    [i \in ReadableMembers(k) |-> MemberTable(k, i)[IFN_COL][r]])

\* C8: a missing or unreadable member file is skipped with a printed warning
\* and the remaining members of its group are still averaged; a group with
\* no readable file writes no summary and is reported as failed, that group
\* only; every other group is still processed and written, and the run
\* completes.
C8_SkipAndContinue ==
    /\ exit_status # 1
    /\ pc = "done" => (todo = <<>> /\ exit_status = 0
                          /\ Printed(Msg("Processing complete!", <<>>, None)))
    /\ \A k \in DOMAIN groups : GroupDone(k) =>
           /\ \A i \in SkippedMembers(k) :
                  IF listing[groups[k][i]].file.state = "missing"
                  THEN Printed(Msg("Warning: not found", groups[k][i], None))
                  ELSE Printed(Msg("Error reading", groups[k][i], None))
           /\ IF ReadableMembers(k) # {}
              THEN /\ SummaryIsMeanOfReadable(k)
                   /\ Printed(Msg("Saved", <<>>, k))
                   /\ ~Printed(Msg("Failed to process group", <<>>, k))
              ELSE /\ k \notin DOMAIN summaries
                   /\ Printed(Msg("Error: No valid CSV files found for group", <<>>, k))
                   /\ Printed(Msg("Failed to process group", <<>>, k))

\* A run with a group of no readable file, and a later group that has a
\* skipped member between two readable members of different values.
C8_Witness ==
    /\ pc = "done"
    /\ \E k \in DOMAIN groups : ReadableMembers(k) = {} /\ k \notin DOMAIN summaries
    /\ \E k \in DOMAIN groups :
           /\ ReadableMembers(k) = {1, 3}
           /\ SkippedMembers(k) = {2}
           /\ MemberTable(k, 1) # MemberTable(k, 3)
           /\ k \in DOMAIN summaries
           /\ summaries[k][IFN_COL] = NumColumn(<<2, 3>>)

(***************************************************************************)
(* C9: the callers of the parser                                           *)
(***************************************************************************)
\* C9: a file whose name gives the parser no value is left out of the data
\* the figure is made from, no exception is raised because of it, and the
\* run goes on to the figure of the remaining files.
C9_NullEntriesSkipped ==
    /\ \A i \in 1..Len(plot_lines) : plot_lines[i].dipbst_value # None
    /\ ~Printed(Msg("TypeError", <<>>, None))
    /\ (pc = "done" /\ \E i \in 1..Len(all_data) : all_data[i].dipbst_value # None)
           => saved_png

(***************************************************************************)
(* C10                                                                     *)
(***************************************************************************)
\* Some simulation directory of a searched location can be processed.
UsableInputExists == \E p \in DOMAIN fs : \E i \in 1..Len(fs[p]) : UsableSimDir(fs[p][i])

\* C10 as claimed: a run ends early with an error only when zero usable inputs
\* exist at all; whenever at least one usable simulation input exists in a
\* searched location the run reaches its output step.
C10_ErrorExitOnlyWithoutUsableInput ==
    exit_status = 1 => ~UsableInputExists

(***************************************************************************)
(* C11                                                                     *)
(***************************************************************************)
\* A folder main of 2_process_csv_averages.py can use: a directory whose
\* name holds a DIPBst value and whose simulation_output.csv can be read.
UsableFolder(name) ==
    /\ listing[name].is_dir
    /\ extract_dipbst_from_folder_name(name) # None
    /\ listing[name].file.state = "ok"

SomeErrorPrinted ==
    \E i \in 1..Len(printed_out) :
        printed_out[i].text \in { "Error: No valid CSV files found for group",
                                  "Failed to process group", "Error reading" }

\* C11: a run that found no usable input at all ends with a non-zero exit
\* status and a printed error.
C11_NoUsableInputExitsNonZero ==
    (pc = "done" /\ ~\E name \in DOMAIN listing : UsableFolder(name)) =>
        (exit_status \notin {None, 0} /\ SomeErrorPrinted)

(***************************************************************************)
(* C12                                                                     *)
(***************************************************************************)
\* The simulation directories the loop of lines 105-117 has visited so far,
\* as pairs <<index in replicate_dirs, index in the glob of line 111>>.
VisitedSims ==
    UNION { { <<k, i>> : i \in 1..Len(fs[replicate_dirs[k]]) } : k \in 1..(rep_i - 1) }

SimAt(v) == fs[replicate_dirs[v[1]]][v[2]]

\* The message the claim expects for a simulation directory without usable
\* data.
WarningFor(sim) ==
    CASE sim.data.state = "missing" -> "Warning: Data file not found"
      [] sim.data.state = "unreadable" -> "Error processing"
      [] Rows(sim.data.df) = 0 -> "Warning: Data file is empty"
      [] OTHER -> "Warning: column not found"

TimesPrinted(m) == Cardinality({ i \in 1..Len(printed_out) : printed_out[i] = m })

\* Row r is the row of simulation directory sim: its burst size is the number
\* written in the name and its peak is a largest value of the IFN column.
RowOfSim(r, sim) ==
    /\ \E i, j \in 1..Len(sim.name) :
           /\ FirstTaggedDigits(sim.name, i, j)
           /\ r.burst_size_DIP = NumberWritten(SubSeq(sim.name, i + Len(Tag), j))
    /\ \E q \in 1..Rows(sim.data.df) :
           /\ r.peak_IFN = sim.data.df[IFN_COL][q]
           /\ r.t_peak_IFN = sim.data.df[TIME_COL][q]
    /\ \A q \in 1..Rows(sim.data.df) : sim.data.df[IFN_COL][q].n <= r.peak_IFN.n

\* C12: every visited simulation directory whose data file is missing, empty
\* or unreadable or lacks the Time or IFN column has its warning printed and
\* gives no row; every other visited simulation directory has its row in
\* results, and in the CSV file when the run ends.
C12_BadSimDirSkippedWithWarning ==
    /\ Len(results) = Cardinality({ v \in VisitedSims : UsableSimDir(SimAt(v)) })
    /\ \A v \in VisitedSims :
           IF UsableSimDir(SimAt(v))
           THEN \E r \in 1..Len(results) : RowOfSim(results[r], SimAt(v))
           ELSE TimesPrinted(Msg(WarningFor(SimAt(v)), SimAt(v).name, None))
                    = Cardinality({ w \in VisitedSims : SimAt(w) = SimAt(v) })
    /\ pc = "done" =>
           /\ peak_csv.written
           /\ Len(peak_csv.rows) = Len(results)
           /\ \A r \in 1..Len(results) :
                  \E q \in 1..Len(peak_csv.rows) : peak_csv.rows[q] = results[r]

\* A run whose first simulation directory has no data file and whose second,
\* in the same replicate directory, gave the only row of the CSV file.
C12_Witness ==
    /\ pc = "done"
    /\ \E k \in 1..Len(replicate_dirs) :
           /\ Len(fs[replicate_dirs[k]]) = 2
           /\ fs[replicate_dirs[k]][1] = SimMissing
           /\ fs[replicate_dirs[k]][2] = SimA
    /\ Len(peak_csv.rows) = 1
    /\ peak_csv.rows[1].peak_IFN = Num(5)
    /\ Printed(Msg("Warning: Data file not found", SimMissing.name, None))

(***************************************************************************)
(* C13                                                                     *)
(***************************************************************************)
\* The DIPBst value written in a folder name, by reading its digits.
ValueWritten(name) ==
    IF \E i, j \in 1..Len(name) : FirstTaggedDigits(name, i, j)
    THEN LET ij == CHOOSE ij \in (1..Len(name)) \X (1..Len(name)) :
                       FirstTaggedDigits(name, ij[1], ij[2])
         IN  NumberWritten(SubSeq(name, ij[1] + Len(Tag), ij[2]))
    ELSE None

\* The folders of value v, and those of them whose file was read.
MembersOfValue(v) ==
    { name \in DOMAIN listing : listing[name].is_dir /\ ValueWritten(name) = v }

ReadMembersOfValue(v) ==
    { name \in MembersOfValue(v) : listing[name].file.state = "ok" }

ValuesWithReadMember ==
    { ValueWritten(name) : name \in { n \in DOMAIN listing : UsableFolder(n) } }

TimesWritten(v) == Cardinality({ i \in 1..Len(to_csv_calls) : to_csv_calls[i] = v })

C14_SameSummariesForAnyListdirOrder ==
    pc = "done" => output_dir = first_output

(***************************************************************************)
(* C15                                                                     *)
(***************************************************************************)
RedPoints == { i \in 1..Len(points) : points[i].color = "red" }

\* The summary files the figure is made from.
PlottedFiles == { f \in GlobSummaryFiles(summary_dir) : HasIFN(summary_dir[f]) }

\* cell is a value of a plotted file, and no plotted file has a greater one.
IsGreatestMaximum(cell) ==
    /\ \E f \in PlottedFiles :
           \E r \in 1..Rows(summary_dir[f].df) : summary_dir[f].df[IFN_COL][r] = cell
    /\ \A f \in PlottedFiles :
           \A r \in 1..Rows(summary_dir[f].df) : summary_dir[f].df[IFN_COL][r].n <= cell.n

C16_OptimumIsFirstGridMaximum ==
    pc = "done" =>
        /\ CellLeq(ColumnMin(X), b_star_observed)
        /\ CellLeq(b_star_observed, ColumnMax(X))
        /\ \E k \in 1..Len(grid) :
               /\ grid[k] = b_star_observed
               /\ \A j \in 1..Len(grid) : preds[j] <= preds[k]
               /\ \A j \in 1..(k - 1) : preds[j] < preds[k]

\* The optimum was taken on a grid of distinct points where a later point
\* shares the greatest prediction, and it is an inner point of the grid.
C16_Witness ==
    /\ pc = "done"
    /\ ColumnMin(X) # ColumnMax(X)
    /\ b_star_observed # ColumnMin(X)
    /\ b_star_observed # ColumnMax(X)
    /\ \E k \in 1..Len(grid) :
           /\ grid[k] = b_star_observed
           /\ \E j \in (k + 1)..Len(grid) : preds[j] = preds[k]

(***************************************************************************)
(* C17                                                                     *)
(***************************************************************************)
\* How many rows of frame carry the label.
RowsLabelled(frame, label) ==
    Cardinality({ i \in 1..Rows(frame) : frame[RATIO_COL][i] = label })

\* C17: after every bootstrap iteration the resample contains, for each
\* burst-size group, exactly as many rows as the group has in the original
\* data, and each of its rows is a row of the original data (and so, carrying
\* its label, a row of that same group).
C17_ResampleWithinGroups ==
    boot_i > 0 =>
        /\ DOMAIN bootstrap_sample = DOMAIN df_observed
        /\ Rows(bootstrap_sample) = Rows(df_observed)
        /\ \A i \in 1..Rows(df_observed) :
               RowsLabelled(bootstrap_sample, df_observed[RATIO_COL][i])
                   = RowsLabelled(df_observed, df_observed[RATIO_COL][i])
        /\ \A i \in 1..Rows(bootstrap_sample) :
               \E j \in 1..Rows(df_observed) :
                   RowAt(bootstrap_sample, i) = RowAt(df_observed, j)

\* A second bootstrap iteration has run on data with two groups, and a row of
\* the larger group was drawn twice.
C17_Witness ==
    /\ boot_i = 2
    /\ \E i, j \in 1..Rows(df_observed) :
           df_observed[RATIO_COL][i] # df_observed[RATIO_COL][j]
    /\ \E i, j \in 1..Rows(bootstrap_sample) :
           /\ i # j
           /\ RowAt(bootstrap_sample, i) = RowAt(bootstrap_sample, j)

(***************************************************************************)
(* C18                                                                     *)
(***************************************************************************)
\* How many entries of the column equal the value.
TimesIn(column, value) ==
    Cardinality({ i \in 1..Len(column) : column[i] = value })

\* C18: after any number of permutation iterations the label column of the
\* working copy is a rearrangement of the original labels, the peak values
\* (and every other column) keep their original order, and the observed
\* dataset, from which the observed statistics and the plot are made, is the
\* table as it was loaded.
C18_PermutationChangesOnlyLabels ==
    pc \in {"permute", "done"} /\ df_perm # NoFrame =>
        /\ Len(df_perm[RATIO_COL]) = Len(df_observed[RATIO_COL])
        /\ \A i \in 1..Rows(df_observed) :
               TimesIn(df_perm[RATIO_COL], df_observed[RATIO_COL][i])
                   = TimesIn(df_observed[RATIO_COL], df_observed[RATIO_COL][i])
        /\ \A c \in DOMAIN df_observed \ {RATIO_COL} : df_perm[c] = df_observed[c]
        /\ df_perm[PEAK_COL] = y_observed
        /\ df_observed = WithRatio(baseline_csv.df)
        /\ y_observed = baseline_csv.df[PEAK_COL]
        /\ pc = "done" => plot_data = df_observed

\* Two permutation iterations have run and the labels of the working copy
\* are no longer in the original order.
C18_Witness ==
    /\ pc = "done"
    /\ perm_i = 2
    /\ df_perm[RATIO_COL] # df_observed[RATIO_COL]
    /\ plot_data = df_observed

(***************************************************************************)
(* C19                                                                     *)
(***************************************************************************)
\* The positions of the plotting script.
PlotRunning == pc \in {"collect", "find_max", "plot"}

\* C19: no step of the aggregation run or of the plotting script creates,
\* changes or deletes a run record (the folders and their
\* simulation_output.csv stay as they were), no summary file is written a
\* second time, and no step of the plotting script writes a summary file.
C19_RunRecordsReadOnlySummariesWrittenOnce ==
    [][/\ listing' = listing
       /\ \A i, j \in 1..Len(to_csv_paths') :
              i # j => to_csv_paths'[i] # to_csv_paths'[j]
       /\ PlotRunning =>
              /\ cwd' = cwd
              /\ summaries' = summaries
              /\ to_csv_paths' = to_csv_paths]_vars

\* The aggregator has written two summaries although a run record could not
\* be read, and the plotting script has drawn from them and saved its figure.
C19_Witness ==
    /\ pc = "done"
    /\ saved_png
    /\ Len(to_csv_paths) = 2
    /\ \E f \in DOMAIN listing : listing[f].is_dir /\ listing[f].file.state # "ok"

(***************************************************************************)
(* C20                                                                     *)
(***************************************************************************)
\* The DIPBst values of the groups main has entered (the print of line 131),
\* in the order it entered them.
RECURSIVE VisitedGroups(_)
VisitedGroups(out) ==
    IF out = <<>>
    THEN <<>>
    ELSE IF Head(out).text = "Processing DIPBst ="
         THEN <<Head(out).group>> \o VisitedGroups(Tail(out))
         ELSE VisitedGroups(Tail(out))

\* main has ended with 'Processing complete!' as its last line, having
\* entered every group, and the groups it entered ascend strictly: none was
\* entered twice.
MainCompleted ==
    /\ pc = "done"
    /\ exit_status = 0
    /\ printed_out[Len(printed_out)].text = "Processing complete!"
    /\ LET visited == VisitedGroups(printed_out)
       IN  /\ { visited[i] : i \in 1..Len(visited) } = DOMAIN groups
           /\ \A i \in 1..(Len(visited) - 1) : visited[i] < visited[i + 1]

\* An upper bound of the number of steps main has yet to take: it has at
\* most one group for each entry of the directory.
StepsLeft ==
    IF pc = "get_folders" THEN Cardinality(DOMAIN listing) + 2
    ELSE IF pc = "groups" THEN Len(todo) + 1
    ELSE 0

\* C20: on every set of folders main visits every group exactly once, in
\* ascending order of the DIPBst value, and then reaches its end, whether the
\* groups were written or failed: every step brings the end nearer and
\* leaves main at its end or where it can take a further step, and at the end
\* every group has been visited once, in ascending order, and 'Processing
\* complete!' is printed. With the steps that can be taken being taken
\* (SpecMainFair), main ends.
C20_RunsStartToFinish ==
    [][/\ StepsLeft' < StepsLeft
       /\ pc' = "groups" => todo' = <<>> \/ Head(todo') \in DOMAIN groups'
       /\ pc' \in {"groups", "done"}
       /\ pc' = "done" => MainCompleted']_vars

\* main has ended after two groups, one written and one failed.
C20_Witness ==
    /\ MainCompleted
    /\ Len(VisitedGroups(printed_out)) = 2
    /\ \E k \in DOMAIN groups : k \notin DOMAIN summaries
    /\ \E k \in DOMAIN groups : k \in DOMAIN summaries

(***************************************************************************)
(* C21                                                                     *)
(***************************************************************************)
\* The numbers written by the digits that follow the tag in the name: one
\* number when the name carries the tag with digits, none otherwise.
ValuesCarried(name) ==
    { NumberWritten(SubSeq(name, place[1] + Len(Tag), place[2])) :
      place \in { q \in (1..Len(name)) \X (1..Len(name)) :
                    FirstTaggedDigits(name, q[1], q[2]) } }

\* The name carries the tag followed by digits, and the digits write k.
CarriesValue(name, k) == k \in ValuesCarried(name)

\* The places <<key, position>> of the grouping g where the folder stands.
PlacesOf(g, folder) ==
    UNION { { <<k, p>> : p \in { q \in 1..Len(g[k]) : g[k][q] = folder } } :
            k \in DOMAIN g }

\* No group of g is empty, and every member of the group keyed k is a folder
\* of seq whose name carries k.
GroupsWellFormed(g, seq) ==
    \A k \in DOMAIN g :
        /\ g[k] # <<>>
        /\ \A p \in 1..Len(g[k]) :
               /\ CarriesValue(g[k][p], k)
               /\ \E i \in 1..Len(seq) : seq[i] = g[k][p]

\* The folder stands at exactly one place of g, in the group of its value.
InExactlyItsGroup(g, folder) ==
    /\ Cardinality(PlacesOf(g, folder)) = 1
    /\ \A place \in PlacesOf(g, folder) : CarriesValue(folder, place[1])

\* The statement for one grouping: every folder of seq whose name carries a
\* value is in exactly the group of that value.
PartitionByValue(g, seq) ==
    /\ GroupsWellFormed(g, seq)
    /\ \A i \in 1..Len(seq) :
           ValuesCarried(seq[i]) # {} => InExactlyItsGroup(g, seq[i])

\* The statement as first written, for both scripts: violated by the
\* grouping of process_selected_burstSizeD.py, which leaves a folder whose
\* value is not in burstSizeD_list out of every group.
C21_EveryTaggedFolderGrouped ==
    /\ pc \in {"grouped", "selected"} => PartitionByValue(groups_all, tagged_folders)
    /\ pc = "selected" => PartitionByValue(groups_selected, tagged_folders)

\* C21: after group_folders_by_dipbst of 2_process_csv_averages.py every folder
\* whose name carries the tag with digits is a member of exactly one group, the
\* group keyed by its parsed value; after group_folders_by_dipbst of
\* process_selected_burstSizeD.py this holds of every such folder whose value
\* is in the selected list, and a folder whose value is not in the list is in
\* no group; in both no folder is in two groups, no group is empty, and every
\* member of the group keyed k parses to k.
C21_GroupingPartitionsGroupedFolders ==
    /\ pc \in {"grouped", "selected"} => PartitionByValue(groups_all, tagged_folders)
    /\ pc = "selected" =>
           /\ GroupsWellFormed(groups_selected, tagged_folders)
           /\ \A i \in 1..Len(tagged_folders) :
                  \A k \in ValuesCarried(tagged_folders[i]) :
                          IF InList(k, burstSizeD_list)
                          THEN InExactlyItsGroup(groups_selected, tagged_folders[i])
                          ELSE PlacesOf(groups_selected, tagged_folders[i]) = {}

\* Two replicate folders of 650 and one folder of 100 have been grouped by
\* both scripts: 650 has both its folders in either grouping, 100 is a group
\* of the first grouping only.
C21_Witness ==
    /\ pc = "selected"
    /\ Len(tagged_folders) = 3
    /\ DOMAIN groups_all = {100, 650}
    /\ Len(groups_all[650]) = 2
    /\ DOMAIN groups_selected = {650}
    /\ Len(groups_selected[650]) = 2

(***************************************************************************)
(* C22                                                                     *)
(***************************************************************************)
\* The IFN cells of the group's data: <<file, row>> of every readable file
\* that has the column.
GroupIfnPlaces ==
    UNION { { <<i, r>> : r \in 1..Rows(group_csv_files[i].df) } :
            i \in { m \in 1..Len(group_csv_files) : HasIFN(group_csv_files[m]) } }

GroupIfnAt(place) == group_csv_files[place[1]].df[IFN_COL][place[2]]

\* C22: the number reported as 'Max IFN for DIPBst <value>' is the maximum of
\* 'Global IFN Concentration Per Cell' over the group's data: it is one of
\* the group's values and no value of the group is greater.
C22_ReportedMaxIsGroupMaximum ==
    (pc = "first_done" /\ first_max_ifn # NoData /\ GroupIfnPlaces # {}) =>
        /\ \E place \in GroupIfnPlaces : GroupIfnAt(place) = first_max_ifn
        /\ \A place \in GroupIfnPlaces : CellLeq(GroupIfnAt(place), first_max_ifn)

(***************************************************************************)
(* C23                                                                     *)
(***************************************************************************)
\* The curve of the level on the axis is drawn in the colour.
CurveDrawn(i, axis, color) ==
    \E c \in 1..Len(curves) :
        curves[c] = [level |-> i, axis |-> axis, color |-> color]

\* C23: for every IFN level i in 1..10 whose file is present (and can be
\* read), its curves are drawn with the i-th colour of the dead-cell and of
\* the antiviral gradient, whichever other levels' files are missing.
C23_LevelDrawnInItsColour ==
    pc \in {"ifn_baseline", "ifn_saved"} =>
        \A i \in 1..IFN_LEVELS :
            ifn_dir[i] = "ok" =>
                /\ CurveDrawn(i, "left", dead_colors[i])
                /\ CurveDrawn(i, "right", anti_colors[i])

(***************************************************************************)
(* C24                                                                     *)
(***************************************************************************)
\* Reading simulation_output.csv fails: the file is missing or unreadable,
\* or the extraction of one of the four rows raises.
SimulationReadFails ==
    IF sim_output.state # "ok" THEN TRUE
    ELSE \E i \in 1..Len(target_times) : SimulationRowRaises(sim_output.df, i)

\* Loading infection_counts_by_time.csv fails: the file is missing or
\* unreadable, or one of the four iterations raises.
ExperimentalLoadFails ==
    IF infection_counts.state # "ok" THEN TRUE
    ELSE \E i \in 1..Len(target_times) :
             ExperimentalRowRaises(infection_counts.df, sim_output.df, i)

\* What holds in every state the script reaches after its first step.
OnlySimulationMandatory ==
    /\ SimulationReadFails => pc = "cmp_exit" /\ exit_status = 1 /\ saved_plots = {}
    /\ (~SimulationReadFails /\ ExperimentalLoadFails /\ pc \in {"cmp_plot", "cmp_done"}) =>
           data_experimental = default_experimental
    /\ pc = "cmp_plot" => exit_status = None
    /\ pc = "cmp_done" => saved_plots = comparison_plots /\ exit_status = 0

\* C24: any failure to read simulation_output.csv ends the run with exit status
\* 1 before any plot is saved, while any failure while loading
\* infection_counts_by_time.csv lets the run continue with the complete
\* hard-coded default experimental data, never a partially filled table, and
\* the plots are then saved.
C24_OnlySimulationTableMandatory ==
    [][/\ OnlySimulationMandatory'
       /\ pc = "cmp_exit" => FALSE
       /\ pc = "cmp_plot" => pc' = "cmp_done" /\ saved_plots' = comparison_plots
       /\ (pc \in {"cmp_experimental", "cmp_rows"} /\ ExperimentalLoadFails) =>
              pc' \in {"cmp_rows", "cmp_plot"}]_vars

\* The third iteration of the experimental loop raised after two entries of
\* the table had been filled: the table is the default one and the plots are
\* saved.
C24_Witness ==
    /\ pc = "cmp_done"
    /\ target_i = 3
    /\ infection_counts.state = "ok"
    /\ data_experimental = default_experimental
    /\ saved_plots = comparison_plots
    /\ exit_status = 0

(***************************************************************************)
(* C25                                                                     *)
(***************************************************************************)
\* The simulation directories of the run that can be processed.
ProcessedSims == { v \in VisitedSims : UsableSimDir(SimAt(v)) }

\* The ways to pair the rows of the CSV file with those directories, each
\* row with a directory it is the record of, no directory paired twice.
RecordPairings ==
    { f \in [1..Len(peak_csv.rows) -> ProcessedSims] :
        /\ \A q \in 1..Len(peak_csv.rows) :
               /\ RowOfSim(peak_csv.rows[q], SimAt(f[q]))
               /\ peak_csv.rows[q].replicate_id
                      = extract_replicate_id(replicate_dirs[f[q][1]])
        /\ \A q \in 1..Len(peak_csv.rows) : \A p \in 1..Len(peak_csv.rows) :
               f[q] = f[p] => q = p }

\* C25: the peak summary written holds exactly the records of the
\* successfully processed simulation directories, each directory exactly
\* once, ordered by non-decreasing burst_size_DIP.
C25_SummaryHoldsEachProcessedDirOnceSorted ==
    peak_csv.written =>
        /\ Len(peak_csv.rows) = Cardinality(ProcessedSims)
        /\ RecordPairings # {}
        /\ \A q \in 1..(Len(peak_csv.rows) - 1) :
               peak_csv.rows[q].burst_size_DIP <= peak_csv.rows[q + 1].burst_size_DIP

\* A summary of two records that were collected in the other order.
C25_Witness ==
    /\ peak_csv.written
    /\ Len(peak_csv.rows) = 2
    /\ peak_csv.rows[1].burst_size_DIP < peak_csv.rows[2].burst_size_DIP
    /\ results[1] = peak_csv.rows[2]

(***************************************************************************)
(* C26                                                                     *)
(***************************************************************************)
\* The selected folders whose simulation_output.csv exists, in the order of
\* burst_folders: the folder of the k-th row of the summary is the k-th.
FoldersWithSeries ==
    SelectSeq(burst_folders, LAMBDA pair : burst_dir[pair[2]].state = "ok")

SeriesOf(pair) == burst_dir[pair[2]].df[IFN_COL]

\* The value is the greatest of the series.
IsMaximumOf(cell, series) ==
    /\ \E q \in 1..Len(series) : series[q] = cell
    /\ \A q \in 1..Len(series) : CellLeq(series[q], cell)

\* C26: every row of the burst-size IFN summary describes one folder
\* consistently: its Max_IFN_Concentration is the maximum, and its
\* End_IFN_Concentration the last value, of the IFN series of that same
\* folder's simulation_output.csv, for every set of selected folders.
C26_RowDescribesItsFolder ==
    burst_csv.written =>
        /\ Len(burst_csv.rows) = Len(FoldersWithSeries) + 1
        /\ \A k \in 1..Len(FoldersWithSeries) :
               LET series == SeriesOf(FoldersWithSeries[k])
               IN  /\ burst_csv.rows[k].BurstSize = FoldersWithSeries[k][1]
                   /\ burst_csv.rows[k].End_IFN_Concentration = series[Len(series)]
                   /\ IsMaximumOf(burst_csv.rows[k].Max_IFN_Concentration, series)

(***************************************************************************)
(* C27                                                                     *)
(***************************************************************************)
\* The runs of the group share one time grid.
RunsShareTimeGrid ==
    \A m \in 1..Len(run_tables) : run_tables[m][TIME_COL] = run_tables[1][TIME_COL]

\* No IFN value of a run is missing.
NoMissingIfn ==
    \A m \in 1..Len(run_tables) : \A r \in 1..Rows(run_tables[m]) :
        run_tables[m][IFN_COL][r].k = "num"

\* a > b as numbers; a comparison with NaN is false.
GreaterNumber(a, b) == a.k = "num" /\ b.k = "num" /\ ~CellLeq(a, b)

\* No value of the averaged series is greater than avg_max_ifn.
AveragedSeriesBelowAvgMax ==
    \A k \in 1..Len(time_series_avg) : ~GreaterNumber(time_series_avg[k].value, avg_max_ifn)

\* The statement as first written: violated by a group on a shared grid in
\* which a run has a missing value where another run has its maximum.
C27_AveragedMaxBelowAvgMax ==
    (pc = "dynamics_done" /\ RunsShareTimeGrid) => AveragedSeriesBelowAvgMax

\* C27: for every burst-size group whose members share an identical time grid
\* and have no missing IFN value, the maximum over time of the group's
\* averaged IFN series is never greater than the group's avg_max_ifn.
C27_AveragedMaxBelowAvgMaxWithoutMissing ==
    (pc = "dynamics_done" /\ RunsShareTimeGrid /\ NoMissingIfn) =>
        /\ avg_max_ifn.k = "num"
        /\ \A k \in 1..Len(time_series_avg) :
               /\ time_series_avg[k].value.k = "num"
               /\ CellLeq(time_series_avg[k].value, avg_max_ifn)

\* Two runs on the grid [0, 1] whose maxima 5 are at different times: the
\* averaged series is 3 at both times and avg_max_ifn is 5.
C27_Witness ==
    /\ pc = "dynamics_done"
    /\ Len(run_tables) = 2
    /\ run_tables[1][IFN_COL] = <<Num(1), Num(5)>>
    /\ run_tables[2][IFN_COL] = <<Num(5), Num(1)>>
    /\ RunsShareTimeGrid
    /\ time_series_avg = << [Time |-> Num(0), value |-> Num(3)],
                            [Time |-> Num(1), value |-> Num(3)] >>
    /\ avg_max_ifn = Num(5)

(***************************************************************************)
(* C28: the two renderers agree on the maximum group.                      *)
(***************************************************************************)
\* Both renderers have saved their figure of the directory.
BothRendered == scatter_started /\ saved_png /\ scatter_saved

\* The DIPBst values of the lines 3_1 has drawn in red.
RedLineValues ==
    { plot_lines[i].dipbst_value :
        i \in { j \in 1..Len(plot_lines) : plot_lines[j].color = "red" } }

\* The DIPBst values of the points 3_2 has drawn in red.
RedPointValues == { points[i].dipbst : i \in RedPoints }

\* The value 3_1 takes as 'Max IFN' and every line it draws in red have the
\* value 3_2 reports, and every point 3_2 draws in red has that value.
RenderersAgree ==
    LET reported == reported_max_dipbst(dipbst_values, max_ifn_values, max_ifn_overall)
    IN  /\ max_ifn_dipbst = reported
        /\ \A v \in RedLineValues \cup RedPointValues : v = reported

\* The summaries of the directory that both renderers take, and the
\* greatest IFN value of each.
RenderedFiles == { f \in GlobSummaryFiles(cwd) : HasIFN(cwd[f]) }

MaxOfFile(f) == np_max(cwd[f].df[IFN_COL])

\* The summaries whose maximum is the greatest all carry one DIPBst value.
GreatestMaximumOfOneValue ==
    \A f, g \in RenderedFiles :
        (/\ \A h \in RenderedFiles : CellLeq(MaxOfFile(h), MaxOfFile(f))
         /\ \A h \in RenderedFiles : CellLeq(MaxOfFile(h), MaxOfFile(g)))
            => extract_dipbst_from_filename(f) = extract_dipbst_from_filename(g)

C29_NumericValuesAreMeansOfMembers ==
    (pc # "agg" /\ Loaded # <<>>) =>
        \A col \in DOMAIN averaged_df \ {TIME_COL} :
            NumericColumn(Loaded, col) =>
                \A r \in 1..Len(averaged_df[col]) :
                    IsMeanOf(averaged_df[col][r],
                             CellsAt(Loaded, col, PlacesInRow(Loaded, col, r)))

(***************************************************************************)
(* C30: the plotted plaque percentages are paired with the marker times.   *)
(***************************************************************************)
\* value is the table's Plaque Percentage at time t.
PlaquePercentageAt(t, value) ==
    \E r \in 1..Rows(plaque_df) :
        plaque_df[TIME_COL][r] = Num(t) /\ plaque_df[PLAQUE_COL][r] = value

\* C30 as claimed: for every input table, the sequence of values handed to
\* the plot has the length of the list of marker times, and its k-th value
\* is the table's Plaque Percentage at the k-th marker time.
C30_ValuesPairedWithMarkerTimes ==
    pc # "plaque_filter" =>
        /\ Len(plaque_percentage_values_at_markers) = Len(time_points_for_markers)
        /\ \A k \in 1..Len(time_points_for_markers) :
               PlaquePercentageAt(time_points_for_markers[k],
                                  plaque_percentage_values_at_markers[k])
====
